---- MODULE Spec2Model ----
(***************************************************************************)
(* Model of the encrypted store (CryptFS) of njsfscrypt: the on-disk file  *)
(* format (8-byte big-endian size, 16-byte nonce, CTR-enciphered body),    *)
(* the block-wise read and read-modify-write loops, truncate / ftruncate,  *)
(* create / open / release and the handle table; and of the dispatcher     *)
(* (VirtualFS): registration, path resolution, the handlers that call a    *)
(* registered store (CryptFS, DirectFS) and the per-descriptor statistics. *)
(* Further specifications: the name codec, write() await by await with two *)
(* calls in flight, _deriveCounterIV, setattr / getattr, a pass-through    *)
(* store beside the encrypted one, and the CLI mount command.              *)
(*                                                                         *)
(* The backing file is a sequence of bytes (0..255), exactly as on disk.   *)
(***************************************************************************)
EXTENDS Integers, Sequences, FiniteSets, TLC

VARIABLES
    disk,       \* the backing file of the one mounted path: NoFile or its bytes
    handles,    \* VirtualFSHandler._handles: fd -> entry
    nextFD,     \* VirtualFSHandler._nextFD
    blockSize,  \* CryptFSOptions.blockSize of the store under test
    disk2,      \* backing file of the twin store (pair specification only)
    blockSize2, \* CryptFSOptions.blockSize of the twin store
    last,       \* the operation that completed last, with its arguments and result
    prevDisk,   \* the backing file as it was when that operation started
    nmut,       \* number of write / truncate / ftruncate calls issued so far
    allocated,  \* every descriptor allocHandle has returned: fd -> entry given, freed or not
    registry,   \* VirtualFS._registry: sequence of (pattern, instance)
    statsMap,   \* VirtualFS._statsMap: key (path, fd) -> statistics record
    backend,    \* the registered stores: instance -> handler, init flag, backing tree
    vlast,      \* the dispatcher call that completed last: backend calls made, callback
    live,       \* descriptors handed to the host and not yet released: key -> tally
    nio,        \* number of dispatcher calls so far that changed a store or the statistics
    tasks,      \* calls in flight: task -> the await it stands at and its local variables
    delivered   \* the host callback invocations the last handler made, in order

cryptVars == <<disk, handles, nextFD, blockSize, disk2, blockSize2, last, prevDisk, nmut>>
vfsVars == <<allocated, registry, statsMap, backend, vlast, live, nio, tasks, delivered>>
vars == <<disk, handles, nextFD, blockSize, disk2, blockSize2, last, prevDisk, nmut,
          allocated, registry, statsMap, backend, vlast, live, nio, tasks, delivered>>

----------------------------------------------------------------------------
(* Program constants *)

AES_BLOCK == 16
NONCE_SIZE == 16
META_SIZE == 8 + NONCE_SIZE

(* Bounds of the model *)

MaxMut == 1     \* write / truncate / ftruncate calls in one run

----------------------------------------------------------------------------
(* Arithmetic helpers: Math.min, Math.max, Math.floor(a / b), Math.ceil(a / b) *)

Min(a, b) == IF a < b THEN a ELSE b
Max(a, b) == IF a > b THEN a ELSE b
FloorDiv(a, b) == a \div b
CeilDiv(a, b) == -((-a) \div b)

\* a function on 1..n as a sequence value (evaluated once, element by element)
AsSeq(f) == SubSeq(f, 1, Len(f))

Zeros(n) == AsSeq([i \in 1..n |-> 0])

\* exclusive or of two bits, of two 4-bit values (tabulated once), of two bytes
XorBit(a, b) == (a + b) % 2
XorNibble ==
    [a \in 0..15 |-> [b \in 0..15 |->
        XorBit(a % 2, b % 2) + 2 * XorBit((a \div 2) % 2, (b \div 2) % 2)
        + 4 * XorBit((a \div 4) % 2, (b \div 4) % 2) + 8 * XorBit(a \div 8, b \div 8)]]
XorByte(a, b) == 16 * XorNibble[a \div 16][b \div 16] + XorNibble[a % 16][b % 16]

----------------------------------------------------------------------------
(* Host file primitives (node:fs/promises FileHandle) on a byte sequence *)

\* the path does not exist in the backing directory (no byte is ever -1)
NoFile == <<-1>>

\* fh.read(buf, 0, len, pos): the bytes actually read (a short read past EOF)
FileRead(f, len, pos) ==
    LET n == Min(len, Len(f) - pos)
    IN  IF n <= 0 THEN <<>> ELSE SubSeq(f, pos + 1, pos + n)

\* fh.write(buf, 0, buf.length, pos): a hole before pos reads as zero bytes
FileWrite(f, buf, pos) ==
    IF Len(buf) = 0 THEN f
    ELSE LET newLen == Max(Len(f), pos + Len(buf))
         IN  AsSeq([i \in 1..newLen |->
                 IF i > pos /\ i <= pos + Len(buf) THEN buf[i - pos]
                 ELSE IF i <= Len(f) THEN f[i]
                 ELSE 0])

\* fh.truncate(len): a negative len is taken as 0; growing appends zero bytes
FileTruncate(f, len) ==
    LET n == Max(0, len)
    IN  AsSeq([i \in 1..n |-> IF i <= Len(f) THEN f[i] ELSE 0])

\* Buffer.alloc(len) filled by fh.read; encBuf.fill(0, bytesRead) beyond it
ReadPadded(f, len, pos) ==
    LET got == FileRead(f, len, pos)
    IN  AsSeq([i \in 1..len |-> IF i <= Len(got) THEN got[i] ELSE 0])

----------------------------------------------------------------------------
(* Buffer.writeBigInt64BE / readBigInt64BE, for values of 32-bit magnitude *)

Pow256(k) == CASE k = 0 -> 1 [] k = 1 -> 256 [] k = 2 -> 65536 [] k = 3 -> 16777216

\* byte k (0 = least significant) of the two's complement of v
Int64Byte(v, k) ==
    IF v >= 0
    THEN IF k >= 4 THEN 0 ELSE (v \div Pow256(k)) % 256
    ELSE IF k >= 4 THEN 255 ELSE 255 - ((((-v) - 1) \div Pow256(k)) % 256)

writeBigInt64BE(v) == AsSeq([i \in 1..8 |-> Int64Byte(v, 8 - i)])

readBigInt64BE(b) ==
    CASE b[1] = 0 /\ b[2] = 0 /\ b[3] = 0 /\ b[4] = 0 /\ b[5] < 128 ->
            b[5] * Pow256(3) + b[6] * Pow256(2) + b[7] * Pow256(1) + b[8]
      [] b[1] = 255 /\ b[2] = 255 /\ b[3] = 255 /\ b[4] = 255 /\ b[5] >= 128 ->
            -(1 + (255 - b[5]) * Pow256(3) + (255 - b[6]) * Pow256(2)
                + (255 - b[7]) * Pow256(1) + (255 - b[8]))

----------------------------------------------------------------------------
(* Block cipher gadget *)

Key == 7

\* big-endian addition of n >= 0 into the byte string b; carry is what falls off
RECURSIVE AddBE(_, _)
AddBE(b, n) ==
    IF Len(b) = 0 THEN [bytes |-> <<>>, carry |-> n]
    ELSE LET s == b[Len(b)] + (n % 256)
             hi == AddBE(SubSeq(b, 1, Len(b) - 1), (n \div 256) + (s \div 256))
         IN  [bytes |-> Append(hi.bytes, s % 256), carry |-> hi.carry]

\* mutant of deriveCounterIV: the block counter is not added
deriveCounterIV_noCounter(nonce, blockCounter) ==
    [ok |-> TRUE, iv |-> nonce]

\* _deriveCounterIV: low 8 bytes of the nonce plus blockCounter;
\* writeBigUInt64BE throws a RangeError when the sum does not fit 64 bits
deriveCounterIV(nonce, blockCounter) ==
    LET sum == AddBE(SubSeq(nonce, 9, 16), blockCounter)
    IN  [ok |-> sum.carry = 0, iv |-> SubSeq(nonce, 1, 8) \o sum.bytes]

\* one AES-256 block encryption, as a fixed pseudo-random function of key and input
AESBlock(key, inp) ==
    LET h == ((inp[1] + 2 * inp[2] + 3 * inp[3] + 4 * inp[4] + 5 * inp[5] + 6 * inp[6]
               + 7 * inp[7] + 8 * inp[8] + 9 * inp[9] + 10 * inp[10] + 11 * inp[11]
               + 12 * inp[12] + 13 * inp[13] + 14 * inp[14] + 15 * inp[15]
               + 16 * inp[16]) * 5 + key * 29) % 256
    IN  AsSeq([i \in 1..AES_BLOCK |-> (h * 3 + i * 37 + 11) % 256])

\* aes-256-ctr: block j of the stream is AES(iv + j), the counter being the whole
\* 128-bit iv, wrapping
CTRStream(key, iv, data) ==
    LET nblk == CeilDiv(Len(data), AES_BLOCK)
        ks == AsSeq([j \in 1..nblk |-> AESBlock(key, AddBE(iv, j - 1).bytes)])
    IN  AsSeq([i \in 1..Len(data) |->
            XorByte(data[i], ks[((i - 1) \div AES_BLOCK) + 1][((i - 1) % AES_BLOCK) + 1])])

decryptCTR(nonce, blockCounter, ciphertext) ==
    LET d == deriveCounterIV(nonce, blockCounter)
    IN  [ok |-> d.ok, out |-> IF d.ok THEN CTRStream(Key, d.iv, ciphertext) ELSE <<>>]

\* mutant of encryptCTR: enciphers at the next counter
encryptCTR_nextCounter(nonce, blockCounter, plaintext) ==
    LET d == deriveCounterIV(nonce, blockCounter + 1)
    IN  [ok |-> d.ok, out |-> IF d.ok THEN CTRStream(Key, d.iv, plaintext) ELSE <<>>]

encryptCTR(nonce, blockCounter, plaintext) ==
    LET d == deriveCounterIV(nonce, blockCounter)
    IN  [ok |-> d.ok, out |-> IF d.ok THEN CTRStream(Key, d.iv, plaintext) ELSE <<>>]

----------------------------------------------------------------------------
(* CryptFS operations on the bytes of one backing file *)

\* the two header fields as read() and write() parse them
headerSize(f) == readBigInt64BE(SubSeq(f, 1, 8))
headerNonce(f) == SubSeq(f, 9, 8 + NONCE_SIZE)

\* create: O_CREAT | O_TRUNC | O_RDWR, then a fresh header (S = 0, random nonce)
cryptCreate(nonce) == FileWrite(<<>>, writeBigInt64BE(0) \o nonce, 0)

\* read: the block loop, block by block; out grows by the slice of each block
RECURSIVE readLoop(_, _, _, _, _, _, _)
readLoop(f, B, nonce, offset, toReadTotal, block, out) ==
    LET lastBlock == FloorDiv(offset + toReadTotal - 1, B)
        blockPlainStart == block * B
        blockPlainEnd == blockPlainStart + B
        readStart == Max(offset, blockPlainStart)
        readEnd == Min(offset + toReadTotal, blockPlainEnd)
        readLenInBlock == readEnd - readStart
        readOffsetInBlock == readStart - blockPlainStart
        counterBlockStart == FloorDiv(blockPlainStart, AES_BLOCK) * AES_BLOCK
        cipherFilePos == META_SIZE + counterBlockStart
        neededPlainBytes == blockPlainEnd - counterBlockStart
        cipherReadLen == CeilDiv(neededPlainBytes, AES_BLOCK) * AES_BLOCK
        encBuf == ReadPadded(f, cipherReadLen, cipherFilePos)
        plain == decryptCTR(nonce, counterBlockStart \div AES_BLOCK, encBuf)
    IN  IF block > lastBlock THEN [ok |-> TRUE, out |-> out]
        ELSE IF ~plain.ok THEN [ok |-> FALSE, out |-> <<>>]
        ELSE readLoop(f, B, nonce, offset, toReadTotal, block + 1,
                      out \o SubSeq(plain.out, readOffsetInBlock + 1,
                                    readOffsetInBlock + readLenInBlock))

\* mutant of cryptRead: the request is not clipped to the logical size
cryptRead_unclipped(f, B, length, offset) ==
    IF Len(f) < META_SIZE THEN [ok |-> TRUE, out |-> <<>>]
    ELSE readLoop(f, B, headerNonce(f), offset, length, FloorDiv(offset, B), <<>>)

\* read(path, fd, length, offset) on an open descriptor
cryptRead(f, B, length, offset) ==
    IF Len(f) < META_SIZE THEN [ok |-> TRUE, out |-> <<>>]
    ELSE LET fileSize == headerSize(f)
             toReadTotal == Min(length, fileSize - offset)
         IN  IF offset >= fileSize THEN [ok |-> TRUE, out |-> <<>>]
             ELSE readLoop(f, B, headerNonce(f), offset, toReadTotal,
                           FloorDiv(offset, B), <<>>)

\* mutant of bufferCopy: the slice lands at the start of the target
bufferCopy_atStart(source, target, targetStart, sourceStart, sourceEnd) ==
    AsSeq([i \in 1..Len(target) |->
              IF i <= sourceEnd - sourceStart THEN source[sourceStart + i] ELSE target[i]])

\* source.copy(target, targetStart, sourceStart, sourceEnd): target afterwards
bufferCopy(source, target, targetStart, sourceStart, sourceEnd) ==
    AsSeq([i \in 1..Len(target) |->
              IF i > targetStart /\ i <= targetStart + (sourceEnd - sourceStart)
              THEN source[sourceStart + (i - targetStart)]
              ELSE target[i]])

\* write: the read-modify-write block loop
RECURSIVE writeLoop(_, _, _, _, _, _, _)
writeLoop(f, B, nonce, buffer, offset, block, bytesWritten) ==
    LET writeEnd == offset + Len(buffer)
        lastBlock == FloorDiv(writeEnd - 1, B)
        blockPlainStart == block * B
        blockPlainEnd == blockPlainStart + B
        writeStart == Max(offset, blockPlainStart)
        writeEndInBlock == Min(writeEnd, blockPlainEnd)
        writeLenInBlock == writeEndInBlock - writeStart
        writeOffsetInBlock == writeStart - blockPlainStart
        counterBlockStart == FloorDiv(blockPlainStart, AES_BLOCK) * AES_BLOCK
        cipherFilePos == META_SIZE + counterBlockStart
        neededPlainBytes == Max(blockPlainEnd, writeEnd) - counterBlockStart
        cipherReadLen == CeilDiv(neededPlainBytes, AES_BLOCK) * AES_BLOCK
        encBuf == ReadPadded(f, cipherReadLen, cipherFilePos)
        plain == decryptCTR(nonce, counterBlockStart \div AES_BLOCK, encBuf)
        merged == bufferCopy(buffer, plain.out, writeOffsetInBlock, bytesWritten,
                             bytesWritten + writeLenInBlock)
        encNew == encryptCTR(nonce, counterBlockStart \div AES_BLOCK, merged)
    IN  IF block > lastBlock THEN [ok |-> TRUE, file |-> f, bytesWritten |-> bytesWritten]
        ELSE IF ~plain.ok THEN [ok |-> FALSE, file |-> f, bytesWritten |-> bytesWritten]
        ELSE writeLoop(FileWrite(f, encNew.out, cipherFilePos), B, nonce, buffer, offset,
                       block + 1, bytesWritten + writeLenInBlock)

\* mutant of cryptWrite: the new size is the end of the write, not the maximum
cryptWrite_sizeIsWriteEnd(f, B, buffer, offset, fresh) ==
    LET noHeader == Len(f) < META_SIZE
        f1 == IF noHeader THEN FileWrite(f, writeBigInt64BE(0) \o fresh, 0) ELSE f
        nonce == IF noHeader THEN fresh ELSE headerNonce(f)
        body == writeLoop(f1, B, nonce, buffer, offset, FloorDiv(offset, B), 0)
    IN  IF body.ok
        THEN [ok |-> TRUE, ret |-> body.bytesWritten,
              file |-> FileWrite(body.file, writeBigInt64BE(offset + Len(buffer)), 0)]
        ELSE [ok |-> FALSE, ret |-> 0, file |-> body.file]

\* write(path, fd, buffer, offset) on an open descriptor; fresh is the nonce
\* crypto.randomBytes would return if the header has to be initialised
cryptWrite(f, B, buffer, offset, fresh) ==
    LET noHeader == Len(f) < META_SIZE
        f1 == IF noHeader THEN FileWrite(f, writeBigInt64BE(0) \o fresh, 0) ELSE f
        fileSize == IF noHeader THEN 0 ELSE headerSize(f)
        nonce == IF noHeader THEN fresh ELSE headerNonce(f)
        writeEnd == offset + Len(buffer)
        newFileSize == Max(fileSize, writeEnd)
        body == writeLoop(f1, B, nonce, buffer, offset, FloorDiv(offset, B), 0)
    IN  IF body.ok
        THEN [ok |-> TRUE, ret |-> body.bytesWritten,
              file |-> FileWrite(body.file, writeBigInt64BE(newFileSize), 0)]
        ELSE [ok |-> FALSE, ret |-> 0, file |-> body.file]

\* mutant of cryptTruncate: the body is cut to whole AES blocks below size
cryptTruncate_floor(f, size) ==
    LET f1 == FileWrite(f, writeBigInt64BE(size), 0)
        blocks == FloorDiv(size, AES_BLOCK)
    IN  FileTruncate(f1, META_SIZE + (blocks * AES_BLOCK))

\* truncate(path, size): opens the path itself ('r+')
cryptTruncate(f, size) ==
    LET f1 == FileWrite(f, writeBigInt64BE(size), 0)
        blocks == CeilDiv(size, AES_BLOCK)
    IN  FileTruncate(f1, META_SIZE + (blocks * AES_BLOCK))

\* mutant of cryptFtruncate: the body is cut to size bytes, not to whole AES blocks
cryptFtruncate_exact(f, size) ==
    LET f1 == FileWrite(f, writeBigInt64BE(size), 0)
        newPhysicalSize == META_SIZE + size
    IN  IF newPhysicalSize < Len(f1) THEN FileTruncate(f1, newPhysicalSize) ELSE f1

\* ftruncate(path, fd, size) after the descriptor and size checks
cryptFtruncate(f, size) ==
    LET f1 == FileWrite(f, writeBigInt64BE(size), 0)
        blocks == CeilDiv(size, AES_BLOCK)
        newPhysicalSize == META_SIZE + (blocks * AES_BLOCK)
    IN  IF newPhysicalSize < Len(f1) THEN FileTruncate(f1, newPhysicalSize) ELSE f1

\* getattr(path).size of a regular file
cryptGetattrSize(f) == IF Len(f) >= META_SIZE THEN headerSize(f) ELSE 0

\* the whole logical contents, as read(fd, S, 0) returns them
Contents(f, B) == cryptRead(f, B, Max(cryptGetattrSize(f), 0), 0).out

----------------------------------------------------------------------------
(* Inputs *)

BlockSizes == {16, 32}

NonceA == <<1, 2, 3, 4, 5, 6, 7, 8, 9, 10, 11, 12, 13, 14, 15, 16>>
NonceB == <<9, 9, 9, 9, 9, 9, 9, 9, 0, 0, 0, 0, 0, 0, 0, 255>>
Nonces == {NonceA, NonceB}

D1 == <<120>>
D33 == AsSeq([i \in 1..33 |-> 64 + i])
D40 == AsSeq([i \in 1..40 |-> 160 + i])
Data == {D1, D33}

Offsets == {0, 5, 33}
\* (length, offset) pairs handed to read
ReadArgs == {<<64, 0>>, <<3, 32>>}
TruncSizes == {-17, 0, 5, 50}

O_RDWR == 2
O_CREAT == 64
OpenFlags == {O_RDWR, O_RDWR + O_CREAT}
HasCreat(flags) == (flags \div O_CREAT) % 2 = 1

\* what crypto.randomBytes can return when write has to initialise the header
\* (the value is not used when the file already has one)
FreshNonces(f) == IF Len(f) < META_SIZE THEN Nonces ELSE {NonceA}

ThePath == "/f"
\* descriptors the host passes in: 1 is the one the run allocates, 2 is never valid
FDs == {1, 2}
AllocFDs == {1}

----------------------------------------------------------------------------
(* Handle table (VirtualFSHandler) *)

allocHandle(hs, fd, entry) == [x \in (DOMAIN hs) \cup {fd} |-> IF x = fd THEN entry ELSE hs[x]]
getHandleOk(hs, fd) == fd \in DOMAIN hs
\* mutant of freeHandle: the entry is left in the table
freeHandle_keeps(hs, fd) == hs

freeHandle(hs, fd) == [x \in (DOMAIN hs) \ {fd} |-> hs[x]]

----------------------------------------------------------------------------
(* The record of the last operation *)

Op(name, off, buf, len, size, err, ret) ==
    [op |-> name, off |-> off, buf |-> buf, len |-> len, size |-> size,
     err |-> err, ret |-> ret]

NoOp == Op("none", 0, <<>>, 0, 0, "", <<>>)

----------------------------------------------------------------------------
(* Results of the store's methods: the backing file afterwards, the error thrown *)
(* ("" if none) and the value returned                                          *)

\* CryptFS.write
storeWrite(f, hs, B, fd, buf, off, fresh) ==
    IF ~getHandleOk(hs, fd) THEN [file |-> f, err |-> "InvalidFD", ret |-> <<>>]
    ELSE LET w == cryptWrite(f, B, buf, off, fresh)
         IN  [file |-> w.file, err |-> IF w.ok THEN "" ELSE "RangeError",
              ret |-> IF w.ok THEN w.ret ELSE <<>>]

\* CryptFS.read
storeRead(f, hs, B, fd, len, off) ==
    IF ~getHandleOk(hs, fd) THEN [file |-> f, err |-> "InvalidFD", ret |-> <<>>]
    ELSE LET r == cryptRead(f, B, len, off)
         IN  [file |-> f, err |-> IF r.ok THEN "" ELSE "RangeError", ret |-> r.out]

\* CryptFS.truncate
storeTruncate(f, size) ==
    IF f = NoFile THEN [file |-> f, err |-> "ENOENT", ret |-> <<>>]
    ELSE [file |-> cryptTruncate(f, size), err |-> "", ret |-> <<>>]

\* CryptFS.ftruncate
storeFtruncate(f, hs, fd, size) ==
    IF ~getHandleOk(hs, fd) THEN [file |-> f, err |-> "InvalidFD", ret |-> <<>>]
    ELSE IF size < 0 THEN [file |-> f, err |-> "EINVAL", ret |-> <<>>]
    ELSE [file |-> cryptFtruncate(f, size), err |-> "", ret |-> <<>>]

\* CryptFS.open: fs.open(dpath, flags)
\* open that empties the backing file, as if O_TRUNC were among the flags
storeOpen_truncates(f, flags) ==
    IF f = NoFile /\ ~HasCreat(flags) THEN [file |-> f, err |-> "ENOENT"]
    ELSE [file |-> <<>>, err |-> ""]

storeOpen(f, flags) ==
    IF f = NoFile /\ ~HasCreat(flags) THEN [file |-> f, err |-> "ENOENT"]
    ELSE [file |-> IF f = NoFile THEN <<>> ELSE f, err |-> ""]

----------------------------------------------------------------------------
(* The stores behind the dispatcher, at the level of names and logical sizes *)

\* the two VirtualFSEntry instances of a mount: a DirectFS and a CryptFS
Backends == {"direct", "crypt"}

\* a node of a backing tree: nothing, a directory, or a file with its inode
NoNode == [kind |-> "none", ino |-> 0]
DirNode == [kind |-> "dir", ino |-> 0]
FileNode(ino) == [kind |-> "file", ino |-> ino]

\* the paths below a base directory that the model lets exist
TreePaths == {"/x", "/x/y", "/y", "/y/y"}

\* a store after construction, over an empty base directory: _isInit = false,
\* _handler = new VirtualFSHandler()
NewBackend ==
    [isInit |-> FALSE, handles |-> <<>>, nextFD |-> 1,
     nodes |-> [p \in TreePaths |-> NoNode], sizes |-> <<>>]

\* the Fuse.E* codes (negative errno values) the dispatcher and the stores use
EPERM == -1
ENOENT == -2
EIO == -5
EBADF == -9
EACCES == -13
EEXIST == -17
ENOTDIR == -20
EISDIR == -21
EINVAL == -22
ENOTEMPTY == -39

\* err.errno of a node:fs error with the string code given
UvErrno(code) ==
    CASE code = "EPERM" -> EPERM [] code = "ENOENT" -> ENOENT [] code = "EIO" -> EIO
      [] code = "EBADF" -> EBADF [] code = "EACCES" -> EACCES [] code = "EEXIST" -> EEXIST
      [] code = "ENOTDIR" -> ENOTDIR [] code = "EISDIR" -> EISDIR
      [] code = "EINVAL" -> EINVAL [] code = "ENOTEMPTY" -> ENOTEMPTY

\* what a method can throw: nothing, new Error(...), a node:fs error (string code,
\* numeric errno), an ErrnoFuseCb (only _fuseErr)
NoErr == [cls |-> "none", code |-> "", errno |-> 0, fuseErr |-> 0]
PlainError == [cls |-> "Error", code |-> "", errno |-> 0, fuseErr |-> 0]
FsError(code) == [cls |-> "FsError", code |-> code, errno |-> UvErrno(code), fuseErr |-> 0]
ErrnoFuseCb(fuseErr) == [cls |-> "ErrnoFuseCb", code |-> "", errno |-> 0, fuseErr |-> fuseErr]

\* a dispatcher call record: the backend methods reached with the path handed to
\* each, the error caught, and the arguments given to the host callback
Call(op, path, fd, inst, calls, err, cb) ==
    [op |-> op, path |-> path, fd |-> fd, inst |-> inst, calls |-> calls,
     err |-> err, cb |-> cb]

NoCall == Call("none", "", 0, "none", <<>>, NoErr, <<>>)

\* the dispatcher and its stores before anything is registered
VfsIdle ==
    /\ allocated = <<>>
    /\ registry = <<>>
    /\ statsMap = <<>>
    /\ backend = [b \in Backends |-> NewBackend]
    /\ vlast = NoCall
    /\ live = <<>>
    /\ nio = 0
    /\ tasks = <<>>
    /\ delivered = <<>>

----------------------------------------------------------------------------
(* The encrypted store as a state machine *)

\* backing files left by an earlier mount of the same store:
\* create, then D40 at 0; create, then D1 at 33 (nothing written below 33)
StoredFile(B) == cryptWrite(cryptCreate(NonceA), B, D40, 0, NonceA).file
SparseFile(B) == cryptWrite(cryptCreate(NonceB), B, D1, 33, NonceB).file

Init ==
    /\ blockSize \in BlockSizes
    /\ disk \in {NoFile, StoredFile(blockSize), SparseFile(blockSize)}
    /\ handles = <<>>
    /\ nextFD = 1
    /\ disk2 = NoFile
    /\ blockSize2 = blockSize
    /\ last = NoOp
    /\ prevDisk = disk
    /\ nmut = 0
    /\ VfsIdle

Entry(flags) == [path |-> ThePath, flags |-> flags]

Create(nonce) ==
    /\ nextFD \in AllocFDs
    /\ disk' = cryptCreate(nonce)
    /\ handles' = allocHandle(handles, nextFD, Entry(O_RDWR + O_CREAT))
    /\ nextFD' = nextFD + 1
    /\ last' = Op("create", 0, <<>>, 0, 0, "", nextFD)
    /\ prevDisk' = disk
    /\ UNCHANGED <<blockSize, disk2, blockSize2, nmut, vfsVars>>

Open(flags) ==
    LET r == storeOpen(disk, flags)
    IN  /\ nextFD \in AllocFDs
        /\ disk' = r.file
        /\ handles' = IF r.err = "" THEN allocHandle(handles, nextFD, Entry(flags))
                      ELSE handles
        /\ nextFD' = IF r.err = "" THEN nextFD + 1 ELSE nextFD
        /\ last' = Op("open", 0, <<>>, 0, 0, r.err, IF r.err = "" THEN nextFD ELSE <<>>)
        /\ prevDisk' = disk
        /\ UNCHANGED <<blockSize, disk2, blockSize2, nmut, vfsVars>>

Read(fd, len, off) ==
    LET r == storeRead(disk, handles, blockSize, fd, len, off)
    IN  /\ last' = Op("read", off, <<>>, len, 0, r.err, r.ret)
        /\ prevDisk' = disk
        /\ UNCHANGED <<disk, handles, nextFD, blockSize, disk2, blockSize2, nmut, vfsVars>>

Write(fd, buf, off) ==
    \E fresh \in FreshNonces(disk) :
        LET r == storeWrite(disk, handles, blockSize, fd, buf, off, fresh)
        IN  /\ nmut < MaxMut
            /\ disk' = r.file
            /\ last' = Op("write", off, buf, 0, 0, r.err, r.ret)
            /\ prevDisk' = disk
            /\ nmut' = nmut + 1
            /\ UNCHANGED <<handles, nextFD, blockSize, disk2, blockSize2, vfsVars>>

Truncate(size) ==
    LET r == storeTruncate(disk, size)
    IN  /\ nmut < MaxMut
        /\ disk' = r.file
        /\ last' = Op("truncate", 0, <<>>, 0, size, r.err, <<>>)
        /\ prevDisk' = disk
        /\ nmut' = nmut + 1
        /\ UNCHANGED <<handles, nextFD, blockSize, disk2, blockSize2, vfsVars>>

Ftruncate(fd, size) ==
    LET r == storeFtruncate(disk, handles, fd, size)
    IN  /\ nmut < MaxMut
        /\ disk' = r.file
        /\ last' = Op("ftruncate", 0, <<>>, 0, size, r.err, <<>>)
        /\ prevDisk' = disk
        /\ nmut' = nmut + 1
        /\ UNCHANGED <<handles, nextFD, blockSize, disk2, blockSize2, vfsVars>>

Release(fd) ==
    /\ handles' = IF getHandleOk(handles, fd) THEN freeHandle(handles, fd) ELSE handles
    /\ last' = Op("release", 0, <<>>, 0, 0,
                  IF getHandleOk(handles, fd) THEN "" ELSE "InvalidFD", <<>>)
    /\ prevDisk' = disk
    /\ UNCHANGED <<disk, nextFD, blockSize, disk2, blockSize2, nmut, vfsVars>>

Next ==
    \/ \E nonce \in Nonces : Create(nonce)
    \/ \E flags \in OpenFlags : Open(flags)
    \/ \E fd \in FDs, a \in ReadArgs : Read(fd, a[1], a[2])
    \/ \E fd \in FDs, buf \in Data, off \in Offsets : Write(fd, buf, off)
    \/ \E size \in TruncSizes : Truncate(size)
    \/ \E fd \in FDs, size \in TruncSizes : Ftruncate(fd, size)
    \/ \E fd \in FDs : Release(fd)

Spec == Init /\ [][Next]_vars

----------------------------------------------------------------------------
(* Two stores with the same key, fed the same operations and the same nonces, *)
(* the first with block size blockSize, the twin with blockSize2              *)

TwinBlockSizes == {32, 48}
\* reads that compare two stores: the whole file, inside a block, across blocks
PairReads == {<<80, 0>>, <<3, 15>>, <<20, 30>>, <<64, 33>>}

InitPair ==
    /\ blockSize = 16
    /\ blockSize2 \in TwinBlockSizes
    /\ \/ disk = NoFile /\ disk2 = NoFile
       \/ disk = StoredFile(blockSize) /\ disk2 = StoredFile(blockSize2)
       \/ disk = SparseFile(blockSize) /\ disk2 = SparseFile(blockSize2)
    /\ handles = <<>>
    /\ nextFD = 1
    /\ last = NoOp
    /\ prevDisk = disk
    /\ nmut = 0
    /\ VfsIdle

PairCreate(nonce) ==
    /\ nextFD \in AllocFDs
    /\ disk' = cryptCreate(nonce)
    /\ disk2' = cryptCreate(nonce)
    /\ handles' = allocHandle(handles, nextFD, Entry(O_RDWR + O_CREAT))
    /\ nextFD' = nextFD + 1
    /\ last' = Op("create", 0, <<>>, 0, 0, "", nextFD)
    /\ prevDisk' = disk
    /\ UNCHANGED <<blockSize, blockSize2, nmut, vfsVars>>

PairWrite(fd, buf, off) ==
    \E fresh \in FreshNonces(disk) :
        LET r == storeWrite(disk, handles, blockSize, fd, buf, off, fresh)
            r2 == storeWrite(disk2, handles, blockSize2, fd, buf, off, fresh)
        IN  /\ nmut < MaxMut
            /\ disk' = r.file
            /\ disk2' = r2.file
            /\ last' = Op("write", off, buf, 0, 0, r.err, r.ret)
            /\ prevDisk' = disk
            /\ nmut' = nmut + 1
            /\ UNCHANGED <<handles, nextFD, blockSize, blockSize2, vfsVars>>

PairTruncate(size) ==
    LET r == storeTruncate(disk, size)
        r2 == storeTruncate(disk2, size)
    IN  /\ nmut < MaxMut
        /\ disk' = r.file
        /\ disk2' = r2.file
        /\ last' = Op("truncate", 0, <<>>, 0, size, r.err, <<>>)
        /\ prevDisk' = disk
        /\ nmut' = nmut + 1
        /\ UNCHANGED <<handles, nextFD, blockSize, blockSize2, vfsVars>>

PairFtruncate(fd, size) ==
    LET r == storeFtruncate(disk, handles, fd, size)
        r2 == storeFtruncate(disk2, handles, fd, size)
    IN  /\ nmut < MaxMut
        /\ disk' = r.file
        /\ disk2' = r2.file
        /\ last' = Op("ftruncate", 0, <<>>, 0, size, r.err, <<>>)
        /\ prevDisk' = disk
        /\ nmut' = nmut + 1
        /\ UNCHANGED <<handles, nextFD, blockSize, blockSize2, vfsVars>>

NextPair ==
    \/ \E nonce \in Nonces : PairCreate(nonce)
    \/ \E fd \in FDs, buf \in Data, off \in Offsets : PairWrite(fd, buf, off)
    \/ \E size \in TruncSizes : PairTruncate(size)
    \/ \E fd \in FDs, size \in TruncSizes : PairFtruncate(fd, size)

SpecPair == InitPair /\ [][NextPair]_vars

----------------------------------------------------------------------------
(* The handle table (VirtualFSHandler) on its own, under any sequence of calls *)

MaxHandles == 3     \* allocHandle calls in one run

\* the encrypted store of the first specification, untouched
CryptIdle ==
    /\ blockSize = AES_BLOCK
    /\ disk = NoFile
    /\ handles = <<>>
    /\ nextFD = 1
    /\ disk2 = NoFile
    /\ blockSize2 = AES_BLOCK
    /\ last = NoOp
    /\ prevDisk = NoFile
    /\ nmut = 0

HandleEntries == {Entry(O_RDWR), Entry(O_RDWR + O_CREAT)}
\* descriptors a caller may pass: never allocated (0 and beyond the last), live, freed
ProbeFDs == 0..(MaxHandles + 1)

HOp(name, fd, err, ret) == [op |-> name, fd |-> fd, err |-> err, ret |-> ret]

handleFrame == <<disk, blockSize, disk2, blockSize2, prevDisk, nmut,
                 registry, statsMap, backend, vlast, live, nio, tasks, delivered>>

InitHandles == CryptIdle /\ VfsIdle

AllocHandle(entry) ==
    /\ nextFD <= MaxHandles
    /\ handles' = allocHandle(handles, nextFD, entry)
    /\ nextFD' = nextFD + 1
    /\ allocated' = [x \in (DOMAIN allocated) \cup {nextFD} |->
                        IF x = nextFD THEN [entry |-> entry, freed |-> FALSE]
                        ELSE allocated[x]]
    /\ last' = HOp("allocHandle", nextFD, "", nextFD)
    /\ UNCHANGED handleFrame

GetHandle(fd) ==
    /\ last' = IF getHandleOk(handles, fd) THEN HOp("getHandle", fd, "", handles[fd])
               ELSE HOp("getHandle", fd, "InvalidFD", <<>>)
    /\ UNCHANGED <<handles, nextFD, allocated>>
    /\ UNCHANGED handleFrame

FreeHandle(fd) ==
    /\ handles' = freeHandle(handles, fd)
    /\ allocated' = [x \in DOMAIN allocated |->
                        IF x = fd THEN [allocated[x] EXCEPT !.freed = TRUE]
                        ELSE allocated[x]]
    /\ last' = HOp("freeHandle", fd, "", <<>>)
    /\ UNCHANGED nextFD
    /\ UNCHANGED handleFrame

NextHandles ==
    \/ \E entry \in HandleEntries : AllocHandle(entry)
    \/ \E fd \in ProbeFDs : GetHandle(fd)
    \/ \E fd \in ProbeFDs : FreeHandle(fd)

SpecHandles == InitHandles /\ [][NextHandles]_vars

----------------------------------------------------------------------------
(* The dispatcher (VirtualFS): registration and path resolution *)

MaxReg == 3     \* register calls that succeed in one run

\* pattern.replace(/\//gu, '\\/'): every '/' becomes '\/'
RECURSIVE escapeSlashes(_)
escapeSlashes(str) ==
    IF str = "" THEN ""
    ELSE (IF SubSeq(str, 1, 1) = "/" THEN "\\/" ELSE SubSeq(str, 1, 1))
             \o escapeSlashes(SubSeq(str, 2, Len(str)))

\* new RegExp(`^${...}`, 'u').source for a string pattern
patternSource(pattern) == "^" \o escapeSlashes(pattern)

\* str.startsWith(prefix)
StartsWith(str, prefix) ==
    Len(str) >= Len(prefix) /\ SubSeq(str, 1, Len(prefix)) = prefix

\* r.pattern.test(path) for a pattern made of letters, digits and '/': the
\* expression is anchored at the start only
patternTest(r, path) == StartsWith(path, r.pattern)

\* mutant of sortBySourceLength: the registry is walked in registration order
sortBySourceLength_unsorted(reg) == reg

\* registry.slice().sort((a, b) => b.source.length - a.source.length): stable,
\* longest source first
RECURSIVE sortBySourceLength(_)
sortBySourceLength(reg) ==
    IF Len(reg) = 0 THEN <<>>
    ELSE LET front == sortBySourceLength(SubSeq(reg, 1, Len(reg) - 1))
             r == reg[Len(reg)]
             k == Cardinality({i \in 1..Len(front) :
                                   Len(front[i].source) >= Len(r.source)})
         IN  SubSeq(front, 1, k) \o <<r>> \o SubSeq(front, k + 1, Len(front))

\* the relative path of a match
relPathOf(r, path) ==
    IF r.source # "^\\/$"
    THEN LET rest == SubSeq(path, Len(r.pattern) + 1, Len(path))
         IN  IF StartsWith(rest, "/") THEN rest ELSE "/" \o rest
    ELSE path

\* _resolve(path): the first entry of the sorted registry that matches, or a throw
RECURSIVE resolveFrom(_, _, _)
resolveFrom(sorted, i, path) ==
    IF i > Len(sorted)
    THEN [ok |-> FALSE, fs |-> "none", relPath |-> "", pattern |-> "", err |-> PlainError]
    ELSE IF patternTest(sorted[i], path)
         THEN [ok |-> TRUE, fs |-> sorted[i].instance, relPath |-> relPathOf(sorted[i], path),
               pattern |-> sorted[i].pattern, err |-> NoErr]
         ELSE resolveFrom(sorted, i + 1, path)

resolve(reg, path) == resolveFrom(sortBySourceLength(reg), 1, path)

\* one call a dispatcher method makes on a store
BCall(inst, method, path) == [inst |-> inst, method |-> method, path |-> path]

cryptFrame == cryptVars

\* register that calls init() whether or not isInit() holds and pushes the entry
\* before it awaits init()
Register_pushFirst(pattern, inst, initOk) ==
    /\ Len(registry) < MaxReg
    /\ registry' = Append(registry, [pattern |-> pattern,
                                     source |-> patternSource(pattern),
                                     instance |-> inst])
    /\ backend' = [backend EXCEPT ![inst].isInit = initOk]
    /\ vlast' = Call("register", pattern, 0, inst, <<BCall(inst, "init", "")>>,
                     IF initOk THEN NoErr ELSE PlainError, <<>>)
    /\ UNCHANGED <<allocated, statsMap, live, nio, tasks, delivered>>
    /\ UNCHANGED cryptFrame

\* register(pattern, instance); initOk: whether instance.init() finds its base
\* directory
Register(pattern, inst, initOk) ==
    LET needInit == ~backend[inst].isInit
        calls == IF needInit THEN <<BCall(inst, "init", "")>> ELSE <<>>
    IN  /\ Len(registry) < MaxReg
        /\ IF needInit /\ ~initOk
           THEN /\ vlast' = Call("register", pattern, 0, inst, calls, PlainError, <<>>)
                /\ UNCHANGED <<registry, backend>>
           ELSE /\ backend' = [backend EXCEPT ![inst].isInit = TRUE]
                /\ registry' = Append(registry, [pattern |-> pattern,
                                                 source |-> patternSource(pattern),
                                                 instance |-> inst])
                /\ vlast' = Call("register", pattern, 0, inst, calls, NoErr, <<>>)
        /\ UNCHANGED <<allocated, statsMap, live, nio, tasks, delivered>>
        /\ UNCHANGED cryptFrame

\* _resolve(path) called on its own
Resolve(path) ==
    LET r == resolve(registry, path)
    IN  /\ vlast' = Call("resolve", path, 0, r.fs, <<>>, r.err, <<r.relPath, r.pattern>>)
        /\ UNCHANGED <<allocated, registry, statsMap, backend, live, nio, tasks, delivered>>
        /\ UNCHANGED cryptFrame

AllPrefixes == {"/", "/crypt2", "/crypt2/x", "/o"}
ResolvePaths == {"/", "/crypt2", "/crypt2/x", "/other/x"}

InitResolve == CryptIdle /\ VfsIdle

NextResolve ==
    \/ \E pattern \in AllPrefixes, inst \in Backends, initOk \in BOOLEAN :
           Register(pattern, inst, initOk)
    \/ \E path \in ResolvePaths : Resolve(path)

SpecResolve == InitResolve /\ [][NextResolve]_vars

----------------------------------------------------------------------------
(* The methods of a store (DirectFS, CryptFS) on its tree and handle table.   *)
(* A file is known by its logical size; kind is "direct" or "crypt".          *)

\* the entry allocHandle stores: the native handle fh (on inode ino, closed or
\* not) and the path
VEntry(path, ino) == [path |-> path, ino |-> ino, closed |-> FALSE]

\* what a method leaves and gives: the store, the error thrown, the value returned
Res(be, err, ret) == [be |-> be, err |-> err, ret |-> ret]

nodeAt(be, path) ==
    IF path = "/" THEN DirNode
    ELSE IF path \in TreePaths THEN be.nodes[path]
    ELSE NoNode

\* path.dirname: the path up to its last '/'
RECURSIVE lastSlash(_, _)
lastSlash(str, i) ==
    IF i = 0 THEN 0
    ELSE IF SubSeq(str, i, i) = "/" THEN i
    ELSE lastSlash(str, i - 1)

dirname(path) ==
    LET i == lastSlash(path, Len(path))
    IN  IF i <= 1 THEN "/" ELSE SubSeq(path, 1, i - 1)

\* the directory holding path exists
parentExists(be, path) == nodeAt(be, dirname(path)).kind = "dir"

\* what the host throws for a path that is not there: ENOTDIR if a component on
\* the way is a file, else ENOENT
RECURSIVE fileOnTheWay(_, _)
fileOnTheWay(be, path) ==
    IF path = "/" THEN FALSE
    ELSE nodeAt(be, dirname(path)).kind = "file" \/ fileOnTheWay(be, dirname(path))

missing(be, path) == FsError(IF fileOnTheWay(be, path) THEN "ENOTDIR" ELSE "ENOENT")

\* inodes that still have a name or an open native handle
inUse(be) ==
    {be.nodes[p].ino : p \in {q \in TreePaths : be.nodes[q].kind = "file"}}
    \cup {be.handles[fd].ino : fd \in {h \in DOMAIN be.handles : ~be.handles[h].closed}}

\* the host drops an inode once it has neither
reclaim(be) == [be EXCEPT !.sizes = [i \in (DOMAIN be.sizes) \cap inUse(be) |-> be.sizes[i]]]

setSize(sizes, ino, size) ==
    [i \in (DOMAIN sizes) \cup {ino} |-> IF i = ino THEN size ELSE sizes[i]]

\* fs.open(dpath, flags) followed by allocHandle; trunc: O_TRUNC is among the flags
beOpenWith(be, path, creat, trunc) ==
    LET n == nodeAt(be, path)
        ino == IF n.kind = "file" THEN n.ino ELSE be.nextFD
        size == IF n.kind = "file" /\ ~trunc THEN be.sizes[ino] ELSE 0
    IN  IF ~parentExists(be, path) THEN Res(be, missing(be, path), <<>>)
        ELSE IF n.kind = "dir" THEN Res(be, FsError("EISDIR"), <<>>)
        ELSE IF n.kind = "none" /\ ~creat THEN Res(be, FsError("ENOENT"), <<>>)
        ELSE Res([be EXCEPT !.nodes[path] = FileNode(ino),
                            !.sizes = setSize(be.sizes, ino, size),
                            !.handles = allocHandle(be.handles, be.nextFD, VEntry(path, ino)),
                            !.nextFD = be.nextFD + 1],
                 NoErr, be.nextFD)

\* open(path, flags)
beOpen(be, kind, path, flags) == beOpenWith(be, path, HasCreat(flags), FALSE)

\* create that takes its descriptor before it opens the backing file
beCreate_allocFirst(be, kind, path) ==
    LET r == beOpenWith(be, path, TRUE, TRUE)
    IN  IF r.err = NoErr THEN r
        ELSE Res([be EXCEPT !.handles = allocHandle(be.handles, be.nextFD, VEntry(path, 0)),
                            !.nextFD = be.nextFD + 1],
                 r.err, <<>>)

\* create(path, mode): O_CREAT | O_TRUNC | O_RDWR (CryptFS then writes a header
\* with S = 0)
beCreate(be, kind, path) == beOpenWith(be, path, TRUE, TRUE)

\* read(path, fd, length, offset): the number of bytes in the buffer returned
beRead(be, kind, fd, length, offset) ==
    IF ~getHandleOk(be.handles, fd) THEN Res(be, PlainError, <<>>)
    ELSE IF be.handles[fd].closed THEN Res(be, FsError("EBADF"), <<>>)
    ELSE Res(be, NoErr, Max(0, Min(length, be.sizes[be.handles[fd].ino] - offset)))

\* write(path, fd, buffer, offset) with a buffer of length > 0 bytes
beWrite(be, kind, fd, length, offset) ==
    IF ~getHandleOk(be.handles, fd) THEN Res(be, PlainError, <<>>)
    ELSE IF be.handles[fd].closed THEN Res(be, FsError("EBADF"), <<>>)
    ELSE LET ino == be.handles[fd].ino
         IN  Res([be EXCEPT !.sizes[ino] = Max(be.sizes[ino], offset + length)],
                 NoErr, length)

\* release(path, fd); closeOk: whether fh.close() resolves. A native handle is
\* closed after close() whether it resolved or not, and closing it again resolves.
\* CryptFS frees the handle after the awaited close, DirectFS in a finally block.
beRelease(be, kind, fd, closeOk) ==
    IF ~getHandleOk(be.handles, fd) THEN Res(be, PlainError, <<>>)
    ELSE IF closeOk \/ be.handles[fd].closed
         THEN Res(reclaim([be EXCEPT !.handles = freeHandle(be.handles, fd)]), NoErr, <<>>)
    ELSE IF kind = "crypt"
         THEN Res(reclaim([be EXCEPT !.handles[fd].closed = TRUE]), FsError("EIO"), <<>>)
    ELSE Res(reclaim([be EXCEPT !.handles = freeHandle(be.handles, fd)]),
             FsError("EIO"), <<>>)

\* truncate(path, size), size >= 0
beTruncate(be, kind, path, size) ==
    LET n == nodeAt(be, path)
    IN  IF n.kind = "none" THEN Res(be, missing(be, path), <<>>)
        ELSE IF n.kind = "dir" THEN Res(be, FsError("EISDIR"), <<>>)
        ELSE Res([be EXCEPT !.sizes[n.ino] = size], NoErr, <<>>)

\* ftruncate(path, fd, size)
beFtruncate(be, kind, fd, size) ==
    IF ~getHandleOk(be.handles, fd) THEN Res(be, PlainError, <<>>)
    ELSE IF kind = "crypt" /\ size < 0 THEN Res(be, ErrnoFuseCb(EINVAL), <<>>)
    ELSE IF be.handles[fd].closed THEN Res(be, FsError("EBADF"), <<>>)
    ELSE Res([be EXCEPT !.sizes[be.handles[fd].ino] = Max(0, size)], NoErr, <<>>)

\* unlink(path)
beUnlink(be, kind, path) ==
    LET n == nodeAt(be, path)
    IN  IF n.kind = "none" THEN Res(be, missing(be, path), <<>>)
        ELSE IF n.kind = "dir" THEN Res(be, FsError("EISDIR"), <<>>)
        ELSE Res(reclaim([be EXCEPT !.nodes[path] = NoNode]), NoErr, <<>>)

\* mkdir(path, mode): DirectFS returns for '/' and for an existing directory
beMkdir(be, kind, path) ==
    LET n == nodeAt(be, path)
    IN  IF kind = "direct" /\ path = "/" THEN Res(be, NoErr, <<>>)
        ELSE IF ~parentExists(be, path) THEN Res(be, missing(be, path), <<>>)
        ELSE IF n.kind = "none" THEN Res([be EXCEPT !.nodes[path] = DirNode], NoErr, <<>>)
        ELSE IF kind = "direct" /\ n.kind = "dir" THEN Res(be, NoErr, <<>>)
        ELSE Res(be, FsError("EEXIST"), <<>>)

\* the names in a directory of the tree
dirEntries(be, path) ==
    {p \in TreePaths : dirname(p) = path /\ be.nodes[p].kind # "none"}

\* rmdir(path): CryptFS lists the directory first and maps what goes wrong to an
\* ErrnoFuseCb; DirectFS calls rmdir
beRmdir(be, kind, path) ==
    LET n == nodeAt(be, path)
    IN  IF kind = "crypt"
        THEN IF n.kind = "none"
             THEN Res(be, ErrnoFuseCb(IF fileOnTheWay(be, path) THEN EIO ELSE ENOENT), <<>>)
             ELSE IF n.kind = "file" THEN Res(be, ErrnoFuseCb(EIO), <<>>)
             ELSE IF dirEntries(be, path) # {} THEN Res(be, ErrnoFuseCb(ENOTEMPTY), <<>>)
             ELSE Res([be EXCEPT !.nodes[path] = NoNode], NoErr, <<>>)
        ELSE IF n.kind = "none" THEN Res(be, missing(be, path), <<>>)
             ELSE IF n.kind = "file" THEN Res(be, FsError("ENOTDIR"), <<>>)
             ELSE IF dirEntries(be, path) # {} THEN Res(be, FsError("ENOTEMPTY"), <<>>)
             ELSE Res([be EXCEPT !.nodes[path] = NoNode], NoErr, <<>>)

\* rename(src, dest): fs.rename on the two mapped paths of this store. The entries
\* below a directory move with it.
beRename(be, kind, src, dest) ==
    LET n == nodeAt(be, src)
        d == nodeAt(be, dest)
        under(p, dir) == StartsWith(p, dir \o "/")
        from(p) == src \o SubSeq(p, Len(dest) + 1, Len(p))
        moved == [p \in TreePaths |->
                     IF p = dest THEN n
                     ELSE IF under(p, dest)
                          THEN (IF from(p) \in TreePaths THEN be.nodes[from(p)] ELSE NoNode)
                     ELSE IF p = src \/ under(p, src) THEN NoNode
                     ELSE be.nodes[p]]
    IN  IF n.kind = "none" \/ src \notin TreePaths THEN Res(be, missing(be, src), <<>>)
        ELSE IF ~parentExists(be, dest) \/ dest \notin TreePaths
             THEN Res(be, missing(be, dest), <<>>)
        ELSE IF src = dest THEN Res(be, NoErr, <<>>)
        ELSE IF n.kind = "dir" /\ under(dest, src) THEN Res(be, FsError("EINVAL"), <<>>)
        ELSE IF n.kind = "file" /\ d.kind = "dir" THEN Res(be, FsError("EISDIR"), <<>>)
        ELSE IF n.kind = "dir" /\ d.kind = "file" THEN Res(be, FsError("ENOTDIR"), <<>>)
        ELSE IF n.kind = "dir" /\ d.kind = "dir" /\ dirEntries(be, dest) # {}
             THEN Res(be, FsError("ENOTEMPTY"), <<>>)
        ELSE Res(reclaim([be EXCEPT !.nodes = moved]), NoErr, <<>>)

\* readdir(path): the set of names
beReaddir(be, kind, path) ==
    LET n == nodeAt(be, path)
    IN  IF n.kind = "none" THEN Res(be, missing(be, path), <<>>)
        ELSE IF n.kind = "file" THEN Res(be, FsError("ENOTDIR"), <<>>)
        ELSE Res(be, NoErr, dirEntries(be, path))

\* getattr(path): kind and size of the entry
beGetattr(be, kind, path) ==
    LET n == nodeAt(be, path)
    IN  IF n.kind = "none" THEN Res(be, missing(be, path), <<>>)
        ELSE Res(be, NoErr, [kind |-> n.kind,
                             size |-> IF n.kind = "file" THEN be.sizes[n.ino] ELSE 0])

\* access(path, mode): the body is commented out
beAccess(be, kind, path) == Res(be, NoErr, <<>>)

\* statfs(path): a constant record
beStatfs(be, kind, path) == Res(be, NoErr, "statfs")

----------------------------------------------------------------------------
(* The dispatcher's handlers; each runs to its host callback *)

MaxVfd == 2     \* descriptors one store allocates in one run
MaxIO == 3      \* dispatcher calls in one run that change a store or the statistics

\* the store a handler works on after _resolve (none if _resolve threw)
BE(r) == IF r.ok THEN backend[r.fs] ELSE NewBackend

\* the error the catch block sees
Caught(r, b) == IF r.ok THEN b.err ELSE r.err

\* _toFuseError(err)
toFuseError(err) == IF err.cls = "FsError" THEN err.errno ELSE -ENOENT

\* a statistics record (the wall-clock fields are left out) and its key
ZeroStats ==
    [readOps |-> 0, readBytes |-> 0, readBytesTotal |-> 0,
     writeOps |-> 0, writeBytes |-> 0, writeBytesTotal |-> 0]
StatsKey(path, fd) == <<path, fd>>
mapSet(m, k, v) == [x \in (DOMAIN m) \cup {k} |-> IF x = k THEN v ELSE m[x]]
mapDelete(m, k) == [x \in (DOMAIN m) \ {k} |-> m[x]]
countRead(st, n) ==
    [st EXCEPT !.readOps = @ + 1, !.readBytes = n, !.readBytesTotal = @ + n]
countWrite(st, n) ==
    [st EXCEPT !.writeOps = @ + 1, !.writeBytes = n, !.writeBytesTotal = @ + n]
\* const stats = map.get(key); if (stats) { ...; map.set(key, stats) }
mapCount(m, k, st) == IF k \in DOMAIN m THEN mapSet(m, k, st) ELSE m

vfsFrame == <<allocated, registry, tasks>>

\* handlers that hand the callback to process.nextTick; the others call it
NextTickOps == {"readdir", "getattr", "statfs", "access", "mkdir", "release", "truncate",
                "ftruncate"}

\* one invocation of the host callback: through process.nextTick or straight from
\* the handler, which runs in the host's own call until its first await (the call
\* of the backend method, reached only if the path resolved)
Delivery(op, reached, args) ==
    [via |-> IF op \in NextTickOps THEN "nextTick"
             ELSE IF reached THEN "afterAwait" ELSE "sync",
     args |-> args]

\* mutant of afterFuseErr: no return after the callback with the error's own code
afterFuseErr_noReturn(err, default) ==
    (IF err.cls = "ErrnoFuseCb" THEN <<(<<err.fuseErr>>)>> ELSE <<>>) \o <<(<<default>>)>>

\* catch block of _statfs, _access and _rmdir: an ErrnoFuseCb is answered with its
\* own code and the handler returns; anything else falls to the default code
afterFuseErr(err, default) ==
    IF err.cls = "ErrnoFuseCb" THEN <<(<<err.fuseErr>>)>> ELSE <<(<<default>>)>>

\* the state a handler leaves: the store after the method it called (method and
\* argPath as handed over), the statistics, the call record, whose callback is the
\* first the host receives, and every callback invocation of the handler
FinishAll(op, path, fd, r, method, argPath, b, cbs, newStats, newLive) ==
    LET newBackend == IF r.ok THEN [backend EXCEPT ![r.fs] = b.be] ELSE backend
        changed == newBackend # backend \/ newStats # statsMap \/ newLive # live
    IN  /\ changed => nio < MaxIO
        /\ backend' = newBackend
        /\ statsMap' = newStats
        /\ live' = newLive
        /\ nio' = IF changed THEN nio + 1 ELSE nio
        /\ vlast' = Call(op, path, fd, r.fs,
                         IF r.ok THEN <<BCall(r.fs, method, argPath)>> ELSE <<>>,
                         IF r.ok THEN b.err ELSE r.err, cbs[1])
        /\ delivered' = [i \in 1..Len(cbs) |-> Delivery(op, r.ok, cbs[i])]
        /\ UNCHANGED vfsFrame
        /\ UNCHANGED cryptFrame

\* a handler with one callback call on the path taken
Finish(op, path, fd, r, method, argPath, b, cb, newStats, newLive) ==
    FinishAll(op, path, fd, r, method, argPath, b, <<cb>>, newStats, newLive)

V_Readdir(path) ==
    LET r == resolve(registry, path)
        b == beReaddir(BE(r), r.fs, r.relPath)
        err == Caught(r, b)
    IN  Finish("readdir", path, 0, r, "readdir", r.relPath, b,
               IF err = NoErr THEN <<0, {".", ".."} \cup b.ret>> ELSE <<ENOENT>>,
               statsMap,
               live)

V_Getattr(path) ==
    LET r == resolve(registry, path)
        b == beGetattr(BE(r), r.fs, r.relPath)
        err == Caught(r, b)
        code == IF err.cls = "ErrnoFuseCb" THEN err.fuseErr
                ELSE IF err.cls = "FsError"
                     THEN (IF err.errno > 0 THEN -err.errno ELSE err.errno)
                ELSE ENOENT
    IN  Finish("getattr", path, 0, r, "getattr", r.relPath, b,
               IF err = NoErr THEN <<0, b.ret>> ELSE <<code>>,
               statsMap,
               live)

V_Statfs(path) ==
    LET r == resolve(registry, path)
        b == beStatfs(BE(r), r.fs, path)
        err == Caught(r, b)
    IN  FinishAll("statfs", path, 0, r, "statfs", path, b,
               IF err = NoErr THEN <<(<<0, b.ret>>)>> ELSE afterFuseErr(err, ENOENT),
               statsMap,
               live)

V_Access(path) ==
    LET r == resolve(registry, path)
        b == beAccess(BE(r), r.fs, path)
        err == Caught(r, b)
    IN  FinishAll("access", path, 0, r, "access", path, b,
               IF err = NoErr THEN <<(<<0>>)>> ELSE afterFuseErr(err, EACCES),
               statsMap,
               live)

V_Open(path, flags) ==
    LET r == resolve(registry, path)
        b == beOpen(BE(r), r.fs, r.relPath, flags)
        err == Caught(r, b)
    IN  /\ BE(r).nextFD <= MaxVfd
        /\ Finish("open", path, 0, r, "open", r.relPath, b,
               IF err = NoErr THEN <<0, b.ret>> ELSE <<ENOENT>>,
               IF err = NoErr THEN mapSet(statsMap, StatsKey(path, b.ret), ZeroStats) ELSE statsMap,
               IF err = NoErr THEN mapSet(live, StatsKey(path, b.ret), ZeroStats) ELSE live)

V_Read(path, fd, len, pos) ==
    LET r == resolve(registry, path)
        b == beRead(BE(r), r.fs, fd, len, pos)
        err == Caught(r, b)
        key == StatsKey(path, fd)
    IN  Finish("read", path, fd, r, "read", r.relPath, b,
               IF err = NoErr THEN <<b.ret>> ELSE <<-ENOENT>>,
               IF err = NoErr THEN mapCount(statsMap, key, countRead(statsMap[key], b.ret)) ELSE statsMap,
               IF err = NoErr THEN mapCount(live, key, countRead(live[key], b.ret)) ELSE live)

V_Write(path, fd, len, pos) ==
    LET r == resolve(registry, path)
        b == beWrite(BE(r), r.fs, fd, len, pos)
        err == Caught(r, b)
        key == StatsKey(path, fd)
    IN  Finish("write", path, fd, r, "write", r.relPath, b,
               IF err = NoErr THEN <<b.ret>> ELSE <<-ENOENT>>,
               IF err = NoErr THEN mapCount(statsMap, key, countWrite(statsMap[key], b.ret)) ELSE statsMap,
               IF err = NoErr THEN mapCount(live, key, countWrite(live[key], b.ret)) ELSE live)

V_Create(path) ==
    LET r == resolve(registry, path)
        b == beCreate(BE(r), r.fs, r.relPath)
        err == Caught(r, b)
    IN  /\ BE(r).nextFD <= MaxVfd
        /\ Finish("create", path, 0, r, "create", r.relPath, b,
               IF err = NoErr THEN <<0, b.ret>> ELSE <<-ENOENT>>,
               statsMap,
               IF err = NoErr THEN mapSet(live, StatsKey(path, b.ret), ZeroStats) ELSE live)

V_Unlink(path) ==
    LET r == resolve(registry, path)
        b == beUnlink(BE(r), r.fs, r.relPath)
        err == Caught(r, b)
    IN  Finish("unlink", path, 0, r, "unlink", r.relPath, b,
               IF err = NoErr THEN <<0>> ELSE <<ENOENT>>,
               statsMap,
               live)

V_Mkdir(path) ==
    LET r == resolve(registry, path)
        b == beMkdir(BE(r), r.fs, r.relPath)
        err == Caught(r, b)
        code == IF err.cls = "FsError"
                   /\ err.code \in {"EEXIST", "ENOTDIR", "ENOENT", "EPERM"}
                THEN UvErrno(err.code)
                ELSE EIO
    IN  Finish("mkdir", path, 0, r, "mkdir", r.relPath, b,
               IF err = NoErr THEN <<0>> ELSE <<code>>,
               statsMap,
               live)

\* _rmdir that delivers no-entry for whatever the store throws
V_Rmdir_noEntry(path) ==
    LET r == resolve(registry, path)
        b == beRmdir(BE(r), r.fs, r.relPath)
        err == Caught(r, b)
    IN  Finish("rmdir", path, 0, r, "rmdir", r.relPath, b,
               IF err = NoErr THEN <<0>> ELSE <<ENOENT>>,
               statsMap,
               live)

V_Rmdir(path) ==
    LET r == resolve(registry, path)
        b == beRmdir(BE(r), r.fs, r.relPath)
        err == Caught(r, b)
    IN  FinishAll("rmdir", path, 0, r, "rmdir", r.relPath, b,
               IF err = NoErr THEN <<(<<0>>)>> ELSE afterFuseErr(err, ENOENT),
               statsMap,
               live)

V_Release(path, fd, closeOk) ==
    LET r == resolve(registry, path)
        b == beRelease(BE(r), r.fs, fd, closeOk)
        err == Caught(r, b)
    IN  Finish("release", path, fd, r, "release", r.relPath, b,
               IF err = NoErr THEN <<0>> ELSE <<toFuseError(err)>>,
               IF err = NoErr THEN mapDelete(statsMap, StatsKey(path, fd)) ELSE statsMap,
               IF err = NoErr THEN mapDelete(live, StatsKey(path, fd)) ELSE live)

V_Truncate(path, size) ==
    LET r == resolve(registry, path)
        b == beTruncate(BE(r), r.fs, path, size)
        err == Caught(r, b)
    IN  Finish("truncate", path, 0, r, "truncate", path, b,
               IF err = NoErr THEN <<0>> ELSE <<toFuseError(err)>>,
               statsMap,
               live)

V_Ftruncate(path, fd, size) ==
    LET r == resolve(registry, path)
        b == beFtruncate(BE(r), r.fs, fd, size)
        err == Caught(r, b)
    IN  Finish("ftruncate", path, fd, r, "ftruncate", path, b,
               IF err = NoErr THEN <<0>> ELSE <<toFuseError(err)>>,
               statsMap,
               live)

\* _rename(src, dest, cb): dest is replaced by its relative path if it resolves
\* (to whichever store), and left as it is if it does not
V_Rename(src, dest) ==
    LET r == resolve(registry, src)
        r2 == resolve(registry, dest)
        tDest == IF r2.ok THEN r2.relPath ELSE dest
        b == beRename(BE(r), r.fs, r.relPath, tDest)
        err == Caught(r, b)
    IN  Finish("rename", <<src, dest>>, 0, r, "rename", <<r.relPath, tDest>>, b,
               IF err = NoErr THEN <<0>> ELSE <<ENOENT>>,
               statsMap,
               live)

\* what the mount set-up and the host pass in: one store under '/crypt2'
Mounts == {<<"/crypt2", "crypt">>, <<"/crypt2", "direct">>}
VPaths == {"/crypt2/x", "/o"}
VFDs == {1, 2}
\* (len, pos) of read and of write
VReadArgs == {<<4, 0>>}
VWriteArgs == {<<5, 0>>}
VSizes == {0}

\* a base directory that holds the file /x of 5 bytes, left by an earlier mount
StockedBackend ==
    [NewBackend EXCEPT !.nodes["/x"] = FileNode(0), !.sizes = setSize(<<>>, 0, 5)]

InitVfs ==
    /\ CryptIdle
    /\ allocated = <<>>
    /\ registry = <<>>
    /\ statsMap = <<>>
    /\ backend \in {[b \in Backends |-> NewBackend], [b \in Backends |-> StockedBackend]}
    /\ vlast = NoCall
    /\ live = <<>>
    /\ nio = 0
    /\ tasks = <<>>
    /\ delivered = <<>>

NextVfs ==
    \/ \E m \in Mounts, initOk \in BOOLEAN : registry = <<>> /\ Register(m[1], m[2], initOk)
    \/ \E path \in VPaths : V_Readdir(path)
    \/ \E path \in VPaths : V_Getattr(path)
    \/ \E path \in VPaths : V_Statfs(path)
    \/ \E path \in VPaths : V_Access(path)
    \/ \E path \in VPaths, flags \in OpenFlags : V_Open(path, flags)
    \/ \E path \in VPaths, fd \in VFDs, a \in VReadArgs : V_Read(path, fd, a[1], a[2])
    \/ \E path \in VPaths, fd \in VFDs, a \in VWriteArgs : V_Write(path, fd, a[1], a[2])
    \/ \E path \in VPaths : V_Create(path)
    \/ \E path \in VPaths : V_Unlink(path)
    \/ \E path \in VPaths : V_Mkdir(path)
    \/ \E path \in VPaths : V_Rmdir(path)
    \/ \E path \in VPaths, fd \in VFDs, closeOk \in BOOLEAN : V_Release(path, fd, closeOk)
    \/ \E path \in VPaths, size \in VSizes : V_Truncate(path, size)
    \/ \E path \in VPaths, fd \in VFDs, size \in VSizes : V_Ftruncate(path, fd, size)

SpecVfs == InitVfs /\ [][NextVfs]_vars

----------------------------------------------------------------------------
(* The name codec of the encrypted store. A name is a sequence of Unicode     *)
(* code points, a token (a name in the backing directory) a string.           *)

\* Buffer.from(name, 'utf8'), for code points below 65536 that are no surrogates
utf8Char(cp) ==
    IF cp < 128 THEN <<cp>>
    ELSE IF cp < 2048 THEN <<192 + (cp \div 64), 128 + (cp % 64)>>
    ELSE <<224 + (cp \div 4096), 128 + ((cp \div 64) % 64), 128 + (cp % 64)>>

\* mutant of utf8Encode: one byte per code point, as the 'latin1' encoding does
RECURSIVE utf8Encode_latin1(_)
utf8Encode_latin1(name) ==
    IF Len(name) = 0 THEN <<>>
    ELSE <<name[1] % 256>> \o utf8Encode_latin1(SubSeq(name, 2, Len(name)))

RECURSIVE utf8Encode(_)
utf8Encode(name) ==
    IF Len(name) = 0 THEN <<>>
    ELSE utf8Char(name[1]) \o utf8Encode(SubSeq(name, 2, Len(name)))

\* buf.toString('utf8'): sequences of one to three bytes; a byte that starts no
\* well-formed sequence becomes U+FFFD
RECURSIVE utf8Decode(_)
utf8Decode(b) ==
    IF Len(b) = 0 THEN <<>>
    ELSE LET cont(i) == Len(b) >= i /\ b[i] >= 128 /\ b[i] <= 191
             rest(k) == utf8Decode(SubSeq(b, k, Len(b)))
             cp2 == (b[1] - 192) * 64 + (b[2] - 128)
             cp3 == (b[1] - 224) * 4096 + (b[2] - 128) * 64 + (b[3] - 128)
         IN  IF b[1] < 128 THEN <<b[1]>> \o rest(2)
             ELSE IF b[1] >= 194 /\ b[1] <= 223 /\ cont(2) THEN <<cp2>> \o rest(3)
             ELSE IF b[1] >= 224 /\ b[1] <= 239 /\ cont(2) /\ cont(3)
                     /\ cp3 >= 2048 /\ ~(cp3 >= 55296 /\ cp3 <= 57343)
                  THEN <<cp3>> \o rest(4)
             ELSE <<65533>> \o rest(2)

\* aes-256-gcm with the 12-byte zero IV: the counter block J0, the stream
\* cipher from J0 + 1 on, and the 16-byte tag, a fixed keyed function of the
\* ciphertext
gcmJ0 == Zeros(12) \o <<0, 0, 0, 1>>

gcmCrypt(key, data) == CTRStream(key, AddBE(gcmJ0, 1).bytes, data)

RECURSIVE gcmHash(_, _)
gcmHash(key, c) ==
    IF Len(c) = 0 THEN key
    ELSE (gcmHash(key, SubSeq(c, 1, Len(c) - 1)) * 31 + c[Len(c)] + 1) % 65521

gcmTag(key, c) ==
    LET h == gcmHash(key, c)
        e == AESBlock(key, gcmJ0)
    IN  AsSeq([i \in 1..16 |-> XorByte(e[i], (h * i + (h \div 256) + Len(c)) % 256)])

\* buf.toString('base64')
B64 == "ABCDEFGHIJKLMNOPQRSTUVWXYZabcdefghijklmnopqrstuvwxyz0123456789+/"
B64Char(v) == SubSeq(B64, v + 1, v + 1)

RECURSIVE base64(_)
base64(b) ==
    IF Len(b) = 0 THEN ""
    ELSE IF Len(b) = 1
         THEN B64Char(b[1] \div 4) \o B64Char((b[1] % 4) * 16) \o "=="
    ELSE IF Len(b) = 2
         THEN B64Char(b[1] \div 4) \o B64Char((b[1] % 4) * 16 + (b[2] \div 16))
                  \o B64Char((b[2] % 16) * 4) \o "="
    ELSE B64Char(b[1] \div 4) \o B64Char((b[1] % 4) * 16 + (b[2] \div 16))
             \o B64Char((b[2] % 16) * 4 + (b[3] \div 64)) \o B64Char(b[3] % 64)
             \o base64(SubSeq(b, 4, Len(b)))

\* Buffer.from(str, 'base64'): both alphabets are read, a character of neither
\* is skipped, '=' ends the input, a last group of two or three characters
\* gives one or two bytes
B64Value(c) ==
    IF c = "-" THEN 62
    ELSE IF c = "_" THEN 63
    ELSE IF \E i \in 1..64 : B64Char(i - 1) = c
         THEN (CHOOSE i \in 1..64 : B64Char(i - 1) = c) - 1
    ELSE -1

RECURSIVE sextets(_)
sextets(str) ==
    IF str = "" THEN <<>>
    ELSE LET c == SubSeq(str, 1, 1)
             rest == SubSeq(str, 2, Len(str))
         IN  IF c = "=" THEN <<>>
             ELSE IF B64Value(c) < 0 THEN sextets(rest)
             ELSE <<B64Value(c)>> \o sextets(rest)

RECURSIVE fromSextets(_)
fromSextets(v) ==
    IF Len(v) < 2 THEN <<>>
    ELSE IF Len(v) = 2 THEN <<v[1] * 4 + (v[2] \div 16)>>
    ELSE IF Len(v) = 3
         THEN <<v[1] * 4 + (v[2] \div 16), (v[2] % 16) * 16 + (v[3] \div 4)>>
    ELSE <<v[1] * 4 + (v[2] \div 16), (v[2] % 16) * 16 + (v[3] \div 4),
           (v[3] % 4) * 64 + v[4]>> \o fromSextets(SubSeq(v, 5, Len(v)))

base64Decode(str) == fromSextets(sextets(str))

\* str.replace(/<from>/gu, to) for a one-character pattern
RECURSIVE replaceAll(_, _, _)
replaceAll(str, from, to) ==
    IF str = "" THEN ""
    ELSE (IF SubSeq(str, 1, 1) = from THEN to ELSE SubSeq(str, 1, 1))
             \o replaceAll(SubSeq(str, 2, Len(str)), from, to)

\* str.replace(/[=]+$/u, '')
RECURSIVE stripPadding(_)
stripPadding(str) ==
    IF str # "" /\ SubSeq(str, Len(str), Len(str)) = "="
    THEN stripPadding(SubSeq(str, 1, Len(str) - 1))
    ELSE str

\* _encodeName(name)
encodeName(name) ==
    LET encrypted == gcmCrypt(Key, utf8Encode(name))
        tag == gcmTag(Key, encrypted)
    IN  stripPadding(replaceAll(replaceAll(base64(tag \o encrypted), "+", "-"), "/", "_"))

\* _decodeName(encName): setAuthTag / final throw unless the first 16 bytes are
\* the tag of the rest (a tag shorter than 16 bytes is taken as rejected)
decodeName(encName) ==
    LET b64 == replaceAll(replaceAll(encName, "-", "+"), "_", "/")
        buf == base64Decode(b64)
        tag == SubSeq(buf, 1, Min(16, Len(buf)))
        encrypted == SubSeq(buf, 17, Len(buf))
    IN  IF Len(tag) = 16 /\ tag = gcmTag(Key, encrypted)
        THEN [ok |-> TRUE, name |-> utf8Decode(gcmCrypt(Key, encrypted))]
        ELSE [ok |-> FALSE, name |-> <<>>]

\* mountPath.split('/').filter(Boolean): the non-empty components (47 is '/')
RECURSIVE splitPath(_, _)
splitPath(path, cur) ==
    IF Len(path) = 0 THEN (IF Len(cur) = 0 THEN <<>> ELSE <<cur>>)
    ELSE IF path[1] = 47
         THEN (IF Len(cur) = 0 THEN <<>> ELSE <<cur>>)
                  \o splitPath(SubSeq(path, 2, Len(path)), <<>>)
    ELSE splitPath(SubSeq(path, 2, Len(path)), Append(cur, path[1]))

\* _mapPath(mountPath): the tokens joined below baseDir
mapPath(mountPath) ==
    LET parts == splitPath(mountPath, <<>>)
    IN  AsSeq([i \in 1..Len(parts) |-> encodeName(parts[i])])

\* the literal '???'
Unreadable == <<63, 63, 63>>

\* mutant of cryptReaddir: entries that do not decode are left out
RECURSIVE cryptReaddir_skips(_)
cryptReaddir_skips(listing) ==
    IF Len(listing) = 0 THEN <<>>
    ELSE (IF decodeName(listing[1]).ok THEN <<decodeName(listing[1]).name>> ELSE <<>>)
             \o cryptReaddir_skips(SubSeq(listing, 2, Len(listing)))

\* readdir(path): (await fs.readdir(fullPath)).map(fn => decode or '???')
cryptReaddir(listing) ==
    AsSeq([i \in 1..Len(listing) |->
              IF decodeName(listing[i]).ok THEN decodeName(listing[i]).name
              ELSE Unreadable])

MaxName == 3    \* code points in a name
MaxDir == 2     \* entries in a backing directory

\* 'a', '.', e acute (two bytes), the euro sign (three bytes)
NameChars == {97, 46, 233, 8364}
Names == UNION {[1..k -> NameChars] : k \in 0..MaxName}

\* the token of every name, tabulated once
EncodedNames == [n \in Names |-> encodeName(n)]

\* names in a backing directory that this store did not write
Foreign == {"lost+found", ".keep", "AAAAAAAAAAAAAAAAAAAAAA", "AAAAAAAAAAAAAAAAAAAAAAAA"}
ListedNames == {<<97>>, <<46, 233>>}
DirTokens == {EncodedNames[n] : n \in ListedNames} \cup Foreign
Listings == UNION {[1..k -> DirTokens] : k \in 0..MaxDir}

\* '/', '/a', '/a/e-acute', '//a/', 'a/.'
MountPaths == {<<47>>, <<47, 97>>, <<47, 97, 47, 233>>, <<47, 47, 97, 47>>, <<97, 47, 46>>}

\* the codec keeps no state: a run is one call from the idle store
InitNames == CryptIdle /\ VfsIdle

EncodeName(name) ==
    /\ vlast = NoCall
    /\ vlast' = Call("encodeName", name, 0, "crypt", <<>>, NoErr, <<encodeName(name)>>)
    /\ UNCHANGED <<allocated, registry, statsMap, backend, live, nio, tasks, delivered>>
    /\ UNCHANGED cryptFrame

DecodeName(encName) ==
    LET d == decodeName(encName)
    IN  /\ vlast = NoCall
        /\ vlast' = Call("decodeName", encName, 0, "crypt", <<>>,
                         IF d.ok THEN NoErr ELSE PlainError, <<d.name>>)
        /\ UNCHANGED <<allocated, registry, statsMap, backend, live, nio, tasks, delivered>>
        /\ UNCHANGED cryptFrame

MapPath(mountPath) ==
    /\ vlast = NoCall
    /\ vlast' = Call("mapPath", mountPath, 0, "crypt", <<>>, NoErr, <<mapPath(mountPath)>>)
    /\ UNCHANGED <<allocated, registry, statsMap, backend, live, nio, tasks, delivered>>
    /\ UNCHANGED cryptFrame

CryptReaddir(listing) ==
    /\ vlast = NoCall
    /\ vlast' = Call("cryptReaddir", listing, 0, "crypt", <<>>, NoErr,
                     <<cryptReaddir(listing)>>)
    /\ UNCHANGED <<allocated, registry, statsMap, backend, live, nio, tasks, delivered>>
    /\ UNCHANGED cryptFrame

NextNames ==
    \/ \E name \in Names : EncodeName(name)
    \/ \E encName \in {EncodedNames[n] : n \in Names} \cup Foreign : DecodeName(encName)
    \/ \E mountPath \in MountPaths : MapPath(mountPath)
    \/ \E listing \in Listings : CryptReaddir(listing)

SpecNames == InitNames /\ [][NextNames]_vars

----------------------------------------------------------------------------
(* The dispatcher over two stores with directories: a pass-through store     *)
(* under '/' and an encrypted store under '/crypt2', both registered and the *)
(* file system mounted                                                       *)

TreeRegistry ==
    <<[pattern |-> "/", source |-> patternSource("/"), instance |-> "direct"],
      [pattern |-> "/crypt2", source |-> patternSource("/crypt2"), instance |-> "crypt"]>>

\* the paths the host names: directories are made one level below a mount point
TDirPaths == {"/crypt2/x", "/crypt2/y", "/y"}
TPaths == TDirPaths \cup {"/crypt2/x/y"}
RenamePairs ==
    {<<"/crypt2/x", "/y">>, <<"/crypt2/x", "/crypt2/y">>, <<"/y", "/crypt2/x">>,
     <<"/y", "/z">>}

InitTree ==
    /\ CryptIdle
    /\ allocated = <<>>
    /\ registry = TreeRegistry
    /\ statsMap = <<>>
    /\ backend = [b \in Backends |-> [NewBackend EXCEPT !.isInit = TRUE]]
    /\ vlast = NoCall
    /\ live = <<>>
    /\ nio = 0
    /\ tasks = <<>>
    /\ delivered = <<>>

NextTree ==
    \/ \E path \in TDirPaths : V_Mkdir(path)
    \/ \E path \in TPaths : V_Rmdir(path)
    \/ \E path \in TPaths : V_Create(path)
    \/ \E path \in TPaths : V_Unlink(path)
    \/ \E path \in TPaths : V_Readdir(path)
    \/ \E path \in TPaths : V_Getattr(path)
    \/ \E pair \in RenamePairs : V_Rename(pair[1], pair[2])

SpecTree == InitTree /\ [][NextTree]_vars

----------------------------------------------------------------------------
(* write() of the encrypted store step by step: the host adapter calls the  *)
(* async handler for every request as it arrives, and the handler runs up   *)
(* to its next await; each await is one I/O on the backing file             *)

\* the requests the host may have in flight at once
TaskIds == {1, 2}

\* buffer and offset of a request: inside block 0, inside block 0 further on,
\* across the boundary of blocks 0 and 1
ConcWrites == {<<(<<120>>), 0>>, <<(<<121>>), 5>>, <<(<<122, 123>>), 15>>}

\* the local variables of one call of write(), and the await it stands at
Task(pc, fd, buffer, offset) ==
    [pc |-> pc, fd |-> fd, buffer |-> buffer, offset |-> offset, size |-> 0,
     fileSize |-> 0, nonce |-> <<>>, block |-> 0, bytesWritten |-> 0,
     encNew |-> <<>>, err |-> "", ret |-> <<>>]

\* the positions of one pass of the block loop
blockGeometry(B, buffer, offset, block) ==
    LET writeEnd == offset + Len(buffer)
        blockPlainStart == block * B
        blockPlainEnd == blockPlainStart + B
        writeStart == Max(offset, blockPlainStart)
        writeEndInBlock == Min(writeEnd, blockPlainEnd)
        counterBlockStart == FloorDiv(blockPlainStart, AES_BLOCK) * AES_BLOCK
        neededPlainBytes == Max(blockPlainEnd, writeEnd) - counterBlockStart
    IN  [lastBlock |-> FloorDiv(writeEnd - 1, B),
         writeLenInBlock |-> writeEndInBlock - writeStart,
         writeOffsetInBlock |-> writeStart - blockPlainStart,
         counter |-> counterBlockStart \div AES_BLOCK,
         cipherFilePos |-> META_SIZE + counterBlockStart,
         cipherReadLen |-> CeilDiv(neededPlainBytes, AES_BLOCK) * AES_BLOCK]

\* where a call goes after its header step or after a block: the next pass of the
\* loop, or the final write of the size
loopOrSize(t, B, block) ==
    IF block <= blockGeometry(B, t.buffer, t.offset, block).lastBlock
    THEN [t EXCEPT !.pc = "read", !.block = block]
    ELSE [t EXCEPT !.pc = "size"]

concFrame == <<handles, nextFD, blockSize, disk2, blockSize2, last, prevDisk, nmut,
               allocated, registry, statsMap, backend, vlast, live, nio, delivered>>

\* descriptor 1 is open on the one path, whose backing file is empty (opened
\* with O_CREAT), holds only a header (created), or holds 40 bytes of content
InitConc ==
    /\ blockSize = AES_BLOCK
    /\ disk \in {storeOpen(NoFile, O_RDWR + O_CREAT).file, cryptCreate(NonceA),
                 StoredFile(AES_BLOCK)}
    /\ nextFD = Cardinality(AllocFDs) + 1
    /\ handles = allocHandle(<<>>, nextFD - 1, Entry(O_RDWR + O_CREAT))
    /\ disk2 = NoFile
    /\ blockSize2 = blockSize
    /\ last = NoOp
    /\ prevDisk = disk
    /\ nmut = 0
    /\ VfsIdle

\* the host issues write(path, fd, buffer, offset): the handler runs to fh.stat()
StartWrite(p, fd, w) ==
    /\ p \notin DOMAIN tasks
    /\ tasks' = mapSet(tasks, p,
                       IF getHandleOk(handles, fd) THEN Task("stat", fd, w[1], w[2])
                       ELSE [Task("done", fd, w[1], w[2]) EXCEPT !.err = "InvalidFD"])
    /\ UNCHANGED <<disk, concFrame>>

\* await fh.stat() resolves
Stat(p) ==
    /\ p \in DOMAIN tasks
    /\ tasks[p].pc = "stat"
    /\ tasks' = [tasks EXCEPT ![p].pc = "header", ![p].size = Len(disk)]
    /\ UNCHANGED <<disk, concFrame>>

\* a file shorter than a header gets a fresh one (await fh.write); otherwise the
\* header is read (await fh.read into a zeroed buffer)
Header(p) ==
    /\ p \in DOMAIN tasks
    /\ tasks[p].pc = "header"
    /\ LET t == tasks[p]
           first == FloorDiv(t.offset, blockSize)
           header == ReadPadded(disk, META_SIZE, 0)
       IN  IF t.size < META_SIZE
           THEN \E nonce \in Nonces :
                   /\ disk' = FileWrite(disk, writeBigInt64BE(0) \o nonce, 0)
                   /\ tasks' = [tasks EXCEPT ![p] =
                          loopOrSize([t EXCEPT !.fileSize = 0, !.nonce = nonce],
                                     blockSize, first)]
           ELSE /\ disk' = disk
                /\ tasks' = [tasks EXCEPT ![p] =
                       loopOrSize([t EXCEPT !.fileSize = headerSize(header),
                                            !.nonce = headerNonce(header)],
                                  blockSize, first)]
    /\ UNCHANGED concFrame

\* await fh.read of the cipher text of the block; the handler then decrypts it,
\* copies its slice of the buffer in, encrypts, and starts fh.write
ReadBlock(p) ==
    /\ p \in DOMAIN tasks
    /\ tasks[p].pc = "read"
    /\ LET t == tasks[p]
           g == blockGeometry(blockSize, t.buffer, t.offset, t.block)
           encBuf == ReadPadded(disk, g.cipherReadLen, g.cipherFilePos)
           plain == decryptCTR(t.nonce, g.counter, encBuf)
           merged == bufferCopy(t.buffer, plain.out, g.writeOffsetInBlock,
                                t.bytesWritten, t.bytesWritten + g.writeLenInBlock)
           encNew == encryptCTR(t.nonce, g.counter, merged)
       IN  tasks' = [tasks EXCEPT ![p] =
               IF plain.ok
               THEN [t EXCEPT !.pc = "write", !.encNew = encNew.out,
                              !.bytesWritten = @ + g.writeLenInBlock]
               ELSE [t EXCEPT !.pc = "done", !.err = "RangeError"]]
    /\ UNCHANGED <<disk, concFrame>>

\* mutant of WriteBlock: the size is rewritten together with each block
WriteBlock_withSize(p) ==
    /\ p \in DOMAIN tasks
    /\ tasks[p].pc = "write"
    /\ LET t == tasks[p]
           g == blockGeometry(blockSize, t.buffer, t.offset, t.block)
       IN  /\ disk' = FileWrite(FileWrite(disk, t.encNew, g.cipherFilePos),
                                writeBigInt64BE(t.offset + t.bytesWritten), 0)
           /\ tasks' = [tasks EXCEPT ![p] =
                  loopOrSize([t EXCEPT !.encNew = <<>>], blockSize, t.block + 1)]
    /\ UNCHANGED concFrame

\* await fh.write of the block resolves
WriteBlock(p) ==
    /\ p \in DOMAIN tasks
    /\ tasks[p].pc = "write"
    /\ LET t == tasks[p]
           g == blockGeometry(blockSize, t.buffer, t.offset, t.block)
       IN  /\ disk' = FileWrite(disk, t.encNew, g.cipherFilePos)
           /\ tasks' = [tasks EXCEPT ![p] =
                  loopOrSize([t EXCEPT !.encNew = <<>>], blockSize, t.block + 1)]
    /\ UNCHANGED concFrame

\* await fh.write of the new size resolves; the call returns bytesWritten
WriteSize(p) ==
    /\ p \in DOMAIN tasks
    /\ tasks[p].pc = "size"
    /\ LET t == tasks[p]
           newFileSize == Max(t.fileSize, t.offset + Len(t.buffer))
       IN  /\ disk' = FileWrite(disk, writeBigInt64BE(newFileSize), 0)
           /\ tasks' = [tasks EXCEPT ![p].pc = "done", ![p].ret = t.bytesWritten]
    /\ UNCHANGED concFrame

NextConc ==
    \/ \E p \in TaskIds, fd \in FDs, w \in ConcWrites : StartWrite(p, fd, w)
    \/ \E p \in TaskIds : Stat(p)
    \/ \E p \in TaskIds : Header(p)
    \/ \E p \in TaskIds : ReadBlock(p)
    \/ \E p \in TaskIds : WriteBlock(p)
    \/ \E p \in TaskIds : WriteSize(p)

SpecConc == InitConc /\ [][NextConc]_vars

----------------------------------------------------------------------------
(* _deriveCounterIV on its own: one call per run, over nonces whose low     *)
(* eight bytes lie at, near and far from 2^64, and small block counters     *)

MaxCounter == 12

\* the high and the low eight bytes a nonce is put together from
NoncePrefixes == {<<1, 2, 3, 4, 5, 6, 7, 8>>, <<255, 255, 255, 255, 255, 255, 255, 255>>}
NonceLows ==
    {<<0, 0, 0, 0, 0, 0, 0, 0>>, <<0, 0, 0, 0, 0, 0, 0, 255>>,
     <<0, 0, 0, 0, 0, 0, 255, 250>>, <<0, 255, 255, 255, 255, 255, 255, 255>>,
     <<255, 255, 255, 255, 255, 255, 255, 0>>, <<255, 255, 255, 255, 255, 255, 255, 250>>,
     <<255, 255, 255, 255, 255, 255, 255, 255>>}
IVNonces == {hi \o lo : hi \in NoncePrefixes, lo \in NonceLows}

InitIV == CryptIdle /\ VfsIdle

DeriveCounterIV(nonce, blockCounter) ==
    LET d == deriveCounterIV(nonce, blockCounter)
    IN  /\ vlast = NoCall
        /\ vlast' = Call("deriveCounterIV", nonce, blockCounter, "crypt", <<>>,
                         IF d.ok THEN NoErr ELSE PlainError,
                         IF d.ok THEN <<d.iv>> ELSE <<>>)
        /\ UNCHANGED <<allocated, registry, statsMap, backend, live, nio, tasks, delivered>>
        /\ UNCHANGED cryptFrame

NextIV == \E nonce \in IVNonces, blockCounter \in 0..MaxCounter :
              DeriveCounterIV(nonce, blockCounter)

SpecIV == InitIV /\ [][NextIV]_vars

----------------------------------------------------------------------------
(* setattr and getattr of the encrypted store on the one backing file *)

MaxAttrSize == 45

\* CryptFS.setattr: stat, then chmod / truncate / utimes of the backing path as the
\* attributes ask; only truncate(dpath, attr.size) touches the bytes
storeSetattr(f, hasSize, size) ==
    IF f = NoFile THEN [file |-> f, err |-> "ENOENT", ret |-> <<>>]
    ELSE [file |-> IF hasSize THEN FileTruncate(f, size) ELSE f, err |-> "", ret |-> <<>>]

\* CryptFS.getattr of a file: the size field of the header, 0 without a header
storeGetattr(f) ==
    IF f = NoFile THEN [file |-> f, err |-> "ENOENT", ret |-> <<>>]
    ELSE [file |-> f, err |-> "", ret |-> cryptGetattrSize(f)]

InitAttr ==
    /\ blockSize \in BlockSizes
    /\ disk \in {NoFile, cryptCreate(NonceA), StoredFile(blockSize), SparseFile(blockSize)}
    /\ handles = <<>>
    /\ nextFD = 1
    /\ disk2 = NoFile
    /\ blockSize2 = blockSize
    /\ last = NoOp
    /\ prevDisk = disk
    /\ nmut = 0
    /\ VfsIdle

Setattr(hasSize, size) ==
    LET r == storeSetattr(disk, hasSize, size)
    IN  /\ nmut < MaxMut
        /\ disk' = r.file
        /\ last' = Op("setattr", 0, <<>>, IF hasSize THEN 1 ELSE 0, size, r.err, <<>>)
        /\ prevDisk' = disk
        /\ nmut' = nmut + 1
        /\ UNCHANGED <<handles, nextFD, blockSize, disk2, blockSize2, vfsVars>>

Getattr ==
    LET r == storeGetattr(disk)
    IN  /\ last.op # "getattr"
        /\ last' = Op("getattr", 0, <<>>, 0, 0, r.err, r.ret)
        /\ prevDisk' = disk
        /\ UNCHANGED <<disk, handles, nextFD, blockSize, disk2, blockSize2, nmut, vfsVars>>

NextAttr ==
    \/ \E hasSize \in BOOLEAN, size \in 0..MaxAttrSize : Setattr(hasSize, size)
    \/ Getattr

SpecAttr == InitAttr /\ [][NextAttr]_vars

----------------------------------------------------------------------------
(* A pass-through store (DirectFS) beside the encrypted one, both starting   *)
(* from an empty base directory and fed the same operations; disk2 is the    *)
(* plain file of the pass-through store                                      *)

\* DirectFS.read: fh.read into a buffer of length bytes, cut to bytesRead
directRead(f, hs, fd, len, off) ==
    IF ~getHandleOk(hs, fd) THEN [file |-> f, err |-> "InvalidFD", ret |-> <<>>]
    ELSE [file |-> f, err |-> "", ret |-> FileRead(f, len, off)]

\* DirectFS.write: fh.write of the whole buffer at offset
directWrite(f, hs, fd, buf, off) ==
    IF ~getHandleOk(hs, fd) THEN [file |-> f, err |-> "InvalidFD", ret |-> <<>>]
    ELSE [file |-> FileWrite(f, buf, off), err |-> "", ret |-> Len(buf)]

\* DirectFS.ftruncate: fh.truncate(size)
directFtruncate(f, hs, fd, size) ==
    IF ~getHandleOk(hs, fd) THEN [file |-> f, err |-> "InvalidFD", ret |-> <<>>]
    ELSE [file |-> FileTruncate(f, size), err |-> "", ret |-> <<>>]

\* DirectFS.getattr of a file: the size fs.stat reports
directGetattrSize(f) == Len(f)

TwinSizes == {size \in TruncSizes : size >= 0}

InitTwin ==
    /\ blockSize \in BlockSizes
    /\ disk = NoFile
    /\ disk2 = NoFile
    /\ blockSize2 = blockSize
    /\ handles = <<>>
    /\ nextFD = 1
    /\ last = NoOp
    /\ prevDisk = disk
    /\ nmut = 0
    /\ VfsIdle

TwinCreate(nonce) ==
    /\ nextFD \in AllocFDs
    /\ disk' = cryptCreate(nonce)
    /\ disk2' = FileTruncate(<<>>, 0)
    /\ handles' = allocHandle(handles, nextFD, Entry(O_RDWR + O_CREAT))
    /\ nextFD' = nextFD + 1
    /\ last' = Op("create", 0, <<>>, 0, 0, "", <<nextFD, nextFD>>)
    /\ prevDisk' = disk
    /\ UNCHANGED <<blockSize, blockSize2, nmut, vfsVars>>

TwinOpen(flags) ==
    LET r == storeOpen(disk, flags)
        r2 == storeOpen(disk2, flags)
    IN  /\ nextFD \in AllocFDs
        /\ disk' = r.file
        /\ disk2' = r2.file
        /\ handles' = IF r.err = "" THEN allocHandle(handles, nextFD, Entry(flags))
                      ELSE handles
        /\ nextFD' = IF r.err = "" THEN nextFD + 1 ELSE nextFD
        /\ last' = Op("open", 0, <<>>, 0, 0, r.err,
                      IF r.err = "" THEN <<nextFD, nextFD>> ELSE <<>>)
        /\ prevDisk' = disk
        /\ UNCHANGED <<blockSize, blockSize2, nmut, vfsVars>>

TwinWrite(fd, buf, off) ==
    \E fresh \in FreshNonces(disk) :
        LET r == storeWrite(disk, handles, blockSize, fd, buf, off, fresh)
            r2 == directWrite(disk2, handles, fd, buf, off)
        IN  /\ nmut < MaxMut
            /\ disk' = r.file
            /\ disk2' = r2.file
            /\ last' = Op("write", off, buf, 0, 0, r.err, <<r.ret, r2.ret>>)
            /\ prevDisk' = disk
            /\ nmut' = nmut + 1
            /\ UNCHANGED <<handles, nextFD, blockSize, blockSize2, vfsVars>>

TwinFtruncate(fd, size) ==
    LET r == storeFtruncate(disk, handles, fd, size)
        r2 == directFtruncate(disk2, handles, fd, size)
    IN  /\ nmut < MaxMut
        /\ disk' = r.file
        /\ disk2' = r2.file
        /\ last' = Op("ftruncate", 0, <<>>, 0, size, r.err, <<>>)
        /\ prevDisk' = disk
        /\ nmut' = nmut + 1
        /\ UNCHANGED <<handles, nextFD, blockSize, blockSize2, vfsVars>>

TwinRead(fd, len, off) ==
    LET r == storeRead(disk, handles, blockSize, fd, len, off)
        r2 == directRead(disk2, handles, fd, len, off)
    IN  /\ last' = Op("read", off, <<>>, len, 0, r.err, <<r.ret, r2.ret>>)
        /\ prevDisk' = disk
        /\ UNCHANGED <<disk, disk2, handles, nextFD, blockSize, blockSize2, nmut, vfsVars>>

TwinRelease(fd) ==
    /\ handles' = IF getHandleOk(handles, fd) THEN freeHandle(handles, fd) ELSE handles
    /\ last' = Op("release", 0, <<>>, 0, 0,
                  IF getHandleOk(handles, fd) THEN "" ELSE "InvalidFD", <<>>)
    /\ prevDisk' = disk
    /\ UNCHANGED <<disk, disk2, nextFD, blockSize, blockSize2, nmut, vfsVars>>

NextTwin ==
    \/ \E nonce \in Nonces : TwinCreate(nonce)
    \/ \E flags \in OpenFlags : TwinOpen(flags)
    \/ \E fd \in FDs, buf \in Data, off \in Offsets : TwinWrite(fd, buf, off)
    \/ \E fd \in FDs, size \in TwinSizes : TwinFtruncate(fd, size)
    \/ \E fd \in FDs, a \in ReadArgs \cup PairReads : TwinRead(fd, a[1], a[2])
    \/ \E fd \in FDs : TwinRelease(fd)

SpecTwin == InitTwin /\ [][NextTwin]_vars

----------------------------------------------------------------------------
(* The CLI mount command: vfs.register('/', new CryptFS(...)) is called and  *)
(* not awaited, vfs.mount() follows in the same run; the store's init and the *)
(* mount then settle in either order, and the host sends operations once the *)
(* mount is up                                                               *)

\* paths the host asks for once mounted
HostPaths == {"/x", "/y"}

\* the command's two calls are in flight, or have not been made
Started == DOMAIN tasks = {"register", "mount"}

InitMount == CryptIdle /\ VfsIdle

\* -mount: register runs to its await of instance.init() (isInit() is false for a
\* new store) and returns a promise nobody awaits; mount() starts the fuse mount
CliMount ==
    /\ tasks = <<>>
    /\ tasks' = [t \in {"register", "mount"} |->
                    [pc |-> IF t = "register" THEN "init" ELSE "mounting"]]
    /\ UNCHANGED <<allocated, registry, statsMap, backend, vlast, live, nio, delivered>>
    /\ UNCHANGED cryptFrame

\* instance.init() settles: register pushes the entry, or rejects; the rejection
\* has no handler
InitSettles(initOk) ==
    /\ Started
    /\ tasks["register"].pc = "init"
    /\ tasks["mount"].pc # "exited"
    /\ IF initOk
       THEN /\ backend' = [backend EXCEPT !["crypt"].isInit = TRUE]
            /\ registry' = Append(registry, [pattern |-> "/", source |-> patternSource("/"),
                                             instance |-> "crypt"])
            /\ tasks' = [tasks EXCEPT !["register"].pc = "done"]
       ELSE /\ tasks' = [tasks EXCEPT !["register"].pc = "rejected"]
            /\ UNCHANGED <<registry, backend>>
    /\ UNCHANGED <<allocated, statsMap, vlast, live, nio, delivered>>
    /\ UNCHANGED cryptFrame

\* the callback of fuse.mount: the mount is up, or failed (which is only logged)
MountSettles(mountOk) ==
    /\ Started
    /\ tasks["mount"].pc = "mounting"
    /\ tasks' = [tasks EXCEPT !["mount"].pc = IF mountOk THEN "mounted" ELSE "failed"]
    /\ UNCHANGED <<allocated, registry, statsMap, backend, vlast, live, nio, delivered>>
    /\ UNCHANGED cryptFrame

\* the unhandled rejection of register ends the process, whatever the mount has
\* come to by then
ExitOnRejection ==
    /\ Started
    /\ tasks["register"].pc = "rejected"
    /\ tasks["mount"].pc # "exited"
    /\ tasks' = [tasks EXCEPT !["mount"].pc = "exited"]
    /\ UNCHANGED <<allocated, registry, statsMap, backend, vlast, live, nio, delivered>>
    /\ UNCHANGED cryptFrame

\* the mount is up and the host sends an operation
Mounted == Started /\ tasks["mount"].pc = "mounted"

NextMount ==
    \/ CliMount
    \/ \E initOk \in BOOLEAN : InitSettles(initOk)
    \/ \E mountOk \in BOOLEAN : MountSettles(mountOk)
    \/ ExitOnRejection
    \/ \E path \in HostPaths : Mounted /\ V_Getattr(path)
    \/ \E path \in HostPaths : Mounted /\ V_Readdir(path)
    \/ \E path \in HostPaths : Mounted /\ V_Mkdir(path)
    \/ \E path \in HostPaths : Mounted /\ V_Create(path)
    \/ \E path \in HostPaths : Mounted /\ V_Unlink(path)

SpecMount == InitMount /\ [][NextMount]_vars

----------------------------------------------------------------------------
(* Properties *)

Exists(f) == f # NoFile
HasHeader(f) == Exists(f) /\ Len(f) >= META_SIZE
\* what create leaves: a 24-byte header with S = 0 and no body
FreshlyCreated(f) == Exists(f) /\ Len(f) = META_SIZE /\ headerSize(f) = 0
ReadOut(f, len, off) == cryptRead(f, blockSize, len, off).out
IsTrunc == last.op \in {"truncate", "ftruncate"}
Ceil16(n) == CeilDiv(n, AES_BLOCK) * AES_BLOCK

\* C1: a write at offset L + d (d > 0) into a file of logical length L makes
\* [L, L + d) read as d zero bytes and [L + d, L + d + |D|) read as D.
C1_WriteBeyondEndZeroFills ==
    (/\ last.op = "write" /\ last.err = ""
     /\ HasHeader(prevDisk)
     /\ headerSize(prevDisk) >= 0
     /\ last.off > headerSize(prevDisk))
    => LET L == headerSize(prevDisk)
       IN  /\ ReadOut(disk, last.off - L, L) = Zeros(last.off - L)
           /\ ReadOut(disk, Len(last.buf), last.off) = last.buf

\* C2: create, then write(fd, D, 0), then read(fd, |D|, 0) returns exactly D.
C2_RoundTrip ==
    (/\ last.op = "write" /\ last.err = ""
     /\ FreshlyCreated(prevDisk)
     /\ last.off = 0)
    => /\ last.ret = Len(last.buf)
       /\ ReadOut(disk, Len(last.buf), 0) = last.buf

C2_Witness ==
    /\ last.op = "write" /\ last.err = ""
    /\ FreshlyCreated(prevDisk)
    /\ last.off = 0
    /\ last.buf = D33
    /\ Len(last.buf) > blockSize
    /\ ReadOut(disk, 33, 0) = D33

\* C3: overwriting [a, b) inside a file of length L with contents C leaves the
\* length L and the contents C[0..a] || D || C[b..L].
OverwriteInside ==
    /\ last.op = "write" /\ last.err = ""
    /\ HasHeader(prevDisk)
    /\ last.off >= 0
    /\ Len(last.buf) > 0
    /\ last.off + Len(last.buf) <= headerSize(prevDisk)

C3_RandomAccessOverwrite ==
    OverwriteInside
    => LET L == headerSize(prevDisk)
           C == Contents(prevDisk, blockSize)
           a == last.off
           b == last.off + Len(last.buf)
       IN  /\ headerSize(disk) = L
           /\ Len(C) = L
           /\ Contents(disk, blockSize)
                = SubSeq(C, 1, a) \o last.buf \o SubSeq(C, b + 1, L)

C3_Witness ==
    /\ OverwriteInside
    /\ last.off = 5
    /\ last.off \div blockSize # (last.off + Len(last.buf) - 1) \div blockSize
    /\ Contents(disk, blockSize) # Contents(prevDisk, blockSize)
    /\ SubSeq(Contents(disk, blockSize), 1, 5) = SubSeq(Contents(prevDisk, blockSize), 1, 5)

\* C4: after truncate(path, n) or ftruncate(path, fd, n) with 0 <= n < S on a
\* file with contents C, [0, n) reads as C[0..n] and reads at offsets >= n are empty.
TruncatedBelow ==
    /\ IsTrunc /\ last.err = ""
    /\ HasHeader(prevDisk)
    /\ last.size >= 0
    /\ last.size < headerSize(prevDisk)

C4_TruncateShrinks ==
    TruncatedBelow
    => LET n == last.size
           C == Contents(prevDisk, blockSize)
       IN  /\ ReadOut(disk, n, 0) = SubSeq(C, 1, n)
           /\ ReadOut(disk, 64, 0) = SubSeq(C, 1, n)
           /\ \A off \in {n, n + 1, 16, 32, 33} :
                  off >= n => ReadOut(disk, 64, off) = <<>>

C4_Witness ==
    /\ TruncatedBelow
    /\ last.size = 5
    /\ headerSize(prevDisk) = 40
    /\ ReadOut(disk, 64, 0) = SubSeq(D40, 1, 5)

\* C5: two stores with the same key and nonces but different block sizes, fed the
\* same create / write / truncate operations, return the same bytes for every
\* read, and the file written with one block size reads back identically through
\* the other block size.
C5_BlockSizeIndependence ==
    Exists(disk)
    => /\ Exists(disk2)
       /\ cryptGetattrSize(disk) = cryptGetattrSize(disk2)
       /\ \A a \in PairReads :
              LET r1 == cryptRead(disk, blockSize, a[1], a[2])
                  r2 == cryptRead(disk2, blockSize2, a[1], a[2])
                  rx == cryptRead(disk, blockSize2, a[1], a[2])
                  ry == cryptRead(disk2, blockSize, a[1], a[2])
              IN  r1 = r2 /\ r1 = rx /\ r1 = ry

C5_Witness ==
    /\ last.op = "write" /\ last.err = ""
    /\ blockSize # blockSize2
    /\ Len(disk) # Len(disk2)
    /\ last.buf = D33
    /\ cryptRead(disk, blockSize, 80, 0).out = cryptRead(disk2, blockSize2, 80, 0).out
    /\ Len(cryptRead(disk, blockSize2, 80, 0).out) >= 33

\* C6: once the backing file has a 24-byte header, no open, read, write, truncate,
\* ftruncate or release changes bytes 8..24 (the nonce); only create does.
C6_NonceStability ==
    (HasHeader(prevDisk) /\ last.op # "create")
    => /\ HasHeader(disk)
       /\ headerNonce(disk) = headerNonce(prevDisk)

\* C7: after every completed operation the backing file's physical size is
\* either 0 or at least META = 24 bytes.
C7_OnDiskSize ==
    Exists(disk) => (Len(disk) = 0 \/ Len(disk) >= META_SIZE)

\* C8 (as claimed): after every completed write, truncate or ftruncate on a file
\* with a header, the body length P is a multiple of 16 and P <= ceil(S / 16) * 16.
AfterMutationWithHeader ==
    /\ last.op \in {"write", "truncate", "ftruncate"} /\ last.err = ""
    /\ HasHeader(disk)

C9_TruncateNeverGrows ==
    (IsTrunc /\ last.err = "" /\ HasHeader(prevDisk))
    => LET newPhysicalSize == META_SIZE + Ceil16(last.size)
       IN  /\ headerSize(disk) = last.size
           /\ Len(disk) = (IF Len(prevDisk) > newPhysicalSize THEN newPhysicalSize
                           ELSE Len(prevDisk))
           /\ last.size > headerSize(prevDisk) => Len(disk) = Len(prevDisk)

\* C10: truncate and ftruncate with size < 0 fail with invalid-argument and leave
\* the backing file (header size field and physical length) unchanged.
C10_NegativeSizeRejected ==
    (IsTrunc /\ last.size < 0 /\ last.err \notin {"InvalidFD", "ENOENT"})
    => /\ last.err = "EINVAL"
       /\ disk = prevDisk

\* C11: read returns an empty buffer when the backing file has fewer than 24
\* bytes or when off >= S, and otherwise returns min(len, S - off) bytes; never
\* more than len bytes and never bytes for positions >= S.
ReadDone == last.op = "read" /\ last.err = ""

C11_ReadLength ==
    ReadDone
    => IF Len(disk) < META_SIZE \/ last.off >= headerSize(disk)
       THEN last.ret = <<>>
       ELSE /\ Len(last.ret) = Min(last.len, headerSize(disk) - last.off)
            /\ Len(last.ret) <= last.len
            /\ last.off + Len(last.ret) <= headerSize(disk)

C11_Witness ==
    /\ ReadDone
    /\ HasHeader(disk)
    /\ last.off < headerSize(disk)
    /\ headerSize(disk) - last.off < last.len
    /\ Len(last.ret) = headerSize(disk) - last.off
    /\ Len(disk) - META_SIZE > headerSize(disk)

\* C12: after a successful write(path, fd, buf, off) on a file whose header size
\* was S (0 if it had no header), the header size is max(S, off + |buf|), the
\* call returns |buf| and getattr reports exactly that size.
WriteDone == last.op = "write" /\ last.err = ""
SizeBefore == IF HasHeader(prevDisk) THEN headerSize(prevDisk) ELSE 0

C12_WriteSizeAccounting ==
    WriteDone
    => /\ HasHeader(disk)
       /\ headerSize(disk) = Max(SizeBefore, last.off + Len(last.buf))
       /\ last.ret = Len(last.buf)
       /\ cryptGetattrSize(disk) = Max(SizeBefore, last.off + Len(last.buf))

C12_Witness ==
    /\ WriteDone
    /\ SizeBefore > last.off + Len(last.buf)
    /\ last.buf = D1
    /\ cryptGetattrSize(disk) = SizeBefore
    /\ disk # prevDisk

\* C18: every descriptor returned by allocHandle is strictly positive and strictly
\* greater than all descriptors returned before (none is reused); getHandle(fd)
\* returns the entry stored at allocation while fd is live, and fails for any fd
\* that was never allocated or has been freed.
LiveFDs == {fd \in DOMAIN allocated : ~allocated[fd].freed}

Matching(path) == {i \in DOMAIN registry : StartsWith(path, registry[i].pattern)}
Patterns == {registry[i].pattern : i \in DOMAIN registry}
WithSlash(str) == IF StartsWith(str, "/") THEN str ELSE "/" \o str

LongestPrefix(path) ==
    LET r == resolve(registry, path)
    IN  Matching(path) # {}
        => \E i \in Matching(path) :
              /\ \A j \in Matching(path) :
                     Len(registry[j].pattern) <= Len(registry[i].pattern)
              /\ r.ok
              /\ r.pattern = registry[i].pattern
              /\ (\A j \in Matching(path) :
                      registry[j].pattern = registry[i].pattern
                      => registry[j].instance = registry[i].instance)
                 => r.fs = registry[i].instance
              /\ r.relPath = WithSlash(SubSeq(path, Len(registry[i].pattern) + 1, Len(path)))

C13_LongestPrefixResolution ==
    /\ \A path \in ResolvePaths : LongestPrefix(path)
    /\ vlast.op = "resolve" /\ Matching(vlast.path) # {}
          => /\ vlast.err = NoErr
             /\ vlast.cb = <<resolve(registry, vlast.path).relPath,
                             resolve(registry, vlast.path).pattern>>
    /\ Patterns = {"/", "/crypt2"}
          => /\ resolve(registry, "/crypt2/x").pattern = "/crypt2"
             /\ resolve(registry, "/crypt2/x").relPath = "/x"
             /\ resolve(registry, "/crypt2").pattern = "/crypt2"
             /\ resolve(registry, "/crypt2").relPath = "/"
             /\ resolve(registry, "/other/x").pattern = "/"
             /\ resolve(registry, "/other/x").relPath = "/other/x"

C13_Witness ==
    /\ vlast.op = "resolve"
    /\ vlast.path = "/crypt2/x"
    /\ Len(registry) = 3
    /\ registry[1].pattern = "/"
    /\ registry[2].pattern = "/crypt2/x"
    /\ registry[3].pattern = "/crypt2"
    /\ vlast.cb = <<"/", "/crypt2/x">>

\* the dispatcher methods the host calls
HostOps == {"readdir", "getattr", "access", "statfs", "open", "read", "write", "create",
            "unlink", "mkdir", "rmdir", "release", "truncate", "ftruncate"}

\* C14: for each of readdir, getattr, access, statfs, open, read, write, create,
\* unlink, mkdir, rmdir, release, truncate and ftruncate invoked on a path under a
\* non-root prefix, the path the selected store receives is the relative path,
\* never the full mounted path.
C14_RelativePathHandedOver ==
    (vlast.op \in HostOps /\ vlast.calls # <<>>)
    => \A i \in DOMAIN vlast.calls :
          vlast.calls[i].path = resolve(registry, vlast.path).relPath

\* C15: when no registered prefix matches the path (also when the registry is
\* empty), every dispatcher operation fails, calls no store method and delivers
\* the no-entry error to the host callback (here: Fuse.ENOENT of either sign).
C15_NoBackendIsNoEntry ==
    (vlast.op \in HostOps /\ Matching(vlast.path) = {})
    => /\ vlast.calls = <<>>
       /\ vlast.cb \in {<<ENOENT>>, <<-ENOENT>>}

\* C16: for any descriptor handed to the host, after N successful reads totalling
\* R bytes and M successful writes totalling W bytes through the dispatcher, its
\* statistics record reports readOps = N, readBytesTotal = R, writeOps = M,
\* writeBytesTotal = W, and readBytes / writeBytes of the most recent read / write.
C16_StatsAccounting ==
    \A key \in DOMAIN live :
        /\ key \in DOMAIN statsMap
        /\ statsMap[key] = live[key]

\* C17: a statistics record keyed by (path, fd) exists for every descriptor
\* returned by a successful dispatcher open or create, from its delivery until
\* that fd is released, and none remains after a successful release: the
\* statistics map holds exactly the live descriptors.
C17_StatsLifecycle == DOMAIN statsMap = DOMAIN live

\* C19: a dispatcher read, write, ftruncate or release naming a descriptor that is
\* unknown to the resolved store or already released is delivered to the host
\* callback with the bad-fd code.
UnknownFd ==
    /\ vlast.op \in {"read", "write", "ftruncate", "release"}
    /\ vlast.calls # <<>>
    /\ vlast.err = PlainError

C19_BadFdReported == UnknownFd => vlast.cb = <<EBADF>>

\* C20: once release(path, fd) has been invoked on a live descriptor of the
\* encrypted or the pass-through store, the descriptor is no longer in the
\* store's handle table when the call finishes, whether closing the native handle
\* succeeded or threw.
ReleasedLive ==
    /\ vlast.op = "release"
    /\ vlast.calls # <<>>
    /\ vlast.err # PlainError

C20_ReleaseIsTerminal ==
    ReleasedLive => vlast.fd \notin DOMAIN backend[vlast.inst].handles

\* C21: register(prefix, store) calls store.init() exactly when isInit() is false,
\* and at most once; if init fails, register fails and leaves the registry and
\* the store's init flag unchanged; otherwise it appends the entry. So every
\* registered store is initialised and only those are selected by _resolve.
RegisteredAreInit ==
    /\ \A i \in DOMAIN registry : backend[registry[i].instance].isInit
    /\ \A path \in ResolvePaths :
           resolve(registry, path).ok => backend[resolve(registry, path).fs].isInit

RegisterStep ==
    (vlast'.op = "register" /\ (vlast' # vlast \/ registry' # registry))
    => LET inst == vlast'.inst
       IN  /\ vlast'.calls = IF backend[inst].isInit THEN <<>>
                                                    ELSE <<BCall(inst, "init", "")>>
           /\ vlast'.err # NoErr => /\ registry' = registry
                                   /\ backend' = backend
                                   /\ vlast'.calls # <<>>
           /\ vlast'.err = NoErr => /\ Len(registry') = Len(registry) + 1
                                   /\ SubSeq(registry', 1, Len(registry)) = registry
                                   /\ registry'[Len(registry')].instance = inst
                                   /\ registry'[Len(registry')].pattern = vlast'.path
                                   /\ backend'[inst].isInit

TableCode(code) ==
    IF code \in {"ENOENT", "EEXIST", "ENOTDIR", "EPERM"} THEN UvErrno(code) ELSE EIO

\* the dispatcher operations the mapping table is stated for (rename aside)
TableOps == {"open", "create", "read", "write", "unlink", "mkdir", "rmdir",
             "readdir", "getattr", "truncate", "ftruncate", "release"}

\* C23: for every dispatcher operation a failure of the backing store is delivered
\* to the host with the code of its kind: a missing path as no-entry, an existing
\* target as exists, a file where a directory is needed as not-a-directory, a
\* host rejection as permission, anything else as i/o (here: up to the sign).
C23_ErrorMappingTable ==
    (vlast.op \in TableOps /\ vlast.calls # <<>> /\ vlast.err.cls = "FsError")
    => vlast.cb \in {<<TableCode(vlast.err.code)>>, <<-TableCode(vlast.err.code)>>}

\* C24: on every failure path of every dispatcher operation the value delivered
\* to the host callback is a negative error number, never zero or positive.
C24_NegativeErrno ==
    (vlast.op \in HostOps /\ vlast.err # NoErr)
    => /\ Len(vlast.cb) = 1
       /\ vlast.cb[1] < 0

RmdirStep ==
    (vlast'.op = "rmdir" /\ vlast'.inst = "crypt" /\ (vlast' # vlast \/ backend' # backend))
    => LET p == vlast'.calls[1].path
           be == backend["crypt"]
       IN  nodeAt(be, p).kind = "dir"
           => IF dirEntries(be, p) # {}
              THEN /\ vlast'.cb = <<ENOTEMPTY>>
                   /\ backend' = backend
              ELSE /\ vlast'.cb = <<0>>
                   /\ backend' = [backend EXCEPT !["crypt"].nodes[p] = NoNode]

C22_RmdirRefusesNonEmpty == [][RmdirStep]_vars

\* rmdir('/crypt2/x') refused while /x holds the file y
C22_Witness ==
    /\ vlast.op = "rmdir"
    /\ vlast.path = "/crypt2/x"
    /\ vlast.cb = <<ENOTEMPTY>>
    /\ backend["crypt"].nodes["/x"].kind = "dir"
    /\ backend["crypt"].nodes["/x/y"].kind = "file"

\* C28: create(path, mode) on the encrypted store whose parent directory is
\* missing in the backing tree fails with not-found (ENOENT), returns no
\* descriptor and leaves the handle table and the next-descriptor counter (and
\* the rest of the store) unchanged.
CreateStep ==
    (vlast'.op = "create" /\ vlast'.inst = "crypt" /\ (vlast' # vlast \/ backend' # backend))
    => LET p == vlast'.calls[1].path
           be == backend["crypt"]
       IN  nodeAt(be, dirname(p)).kind = "none"
           => /\ vlast'.err = FsError("ENOENT")
              /\ Len(vlast'.cb) = 1
              /\ backend'["crypt"].handles = be.handles
              /\ backend'["crypt"].nextFD = be.nextFD
              /\ backend' = backend

C28_FailedCreateAllocatesNothing == [][CreateStep]_vars

\* create('/crypt2/x/y') with no /x in the store, while descriptor 1 is open
C28_Witness ==
    /\ vlast.op = "create"
    /\ vlast.path = "/crypt2/x/y"
    /\ vlast.err = FsError("ENOENT")
    /\ backend["crypt"].nodes["/x"].kind = "none"
    /\ DOMAIN backend["crypt"].handles = {1}
    /\ backend["crypt"].nextFD = 2

\* C26: when source and destination of a dispatcher rename resolve to different
\* stores, the source store's rename is called with the source-relative path and
\* the destination path relative to the destination store, and a rename reported
\* as successful leaves the entry reachable at the destination mounted path and
\* no longer at the source mounted path.
C26_RenameAcrossBackends ==
    LET src == vlast.path[1]
        dest == vlast.path[2]
        rs == resolve(registry, src)
        rd == resolve(registry, dest)
    IN  (vlast.op = "rename" /\ rs.ok /\ rd.ok /\ rs.fs # rd.fs)
        => /\ vlast.calls = <<BCall(rs.fs, "rename", <<rs.relPath, rd.relPath>>)>>
           /\ vlast.cb = <<0>>
              => /\ nodeAt(backend[rd.fs], rd.relPath).kind # "none"
                 /\ nodeAt(backend[rs.fs], rs.relPath).kind = "none"

\* the characters of a string
Chars(str) == {SubSeq(str, i, i) : i \in 1..Len(str)}

\* the number of non-empty components of a path
Components(path) ==
    Cardinality({i \in 1..Len(path) : path[i] # 47 /\ (i = 1 \/ path[i - 1] = 47)})

\* C30: for the fixed key and every name s without '/', decodeName(encodeName(s))
\* = s; for s1 # s2, encodeName(s1) # encodeName(s2); a token holds no '/', so a
\* path of n components is mapped to n tokens, each the token of its component.
C30_NameCodecRoundTrip ==
    /\ vlast.op = "encodeName"
       => LET s == vlast.path
              t == vlast.cb[1]
          IN  /\ decodeName(t) = [ok |-> TRUE, name |-> s]
              /\ \A s2 \in Names \ {s} : EncodedNames[s2] # t
              /\ Chars(t) \cap {"/", "+", "="} = {}
              /\ t \notin {"", ".", ".."}
    /\ vlast.op = "mapPath"
       => LET tokens == vlast.cb[1]
              parts == splitPath(vlast.path, <<>>)
          IN  /\ Len(tokens) = Components(vlast.path)
              /\ Len(parts) = Len(tokens)
              /\ \A i \in 1..Len(tokens) : decodeName(tokens[i]) = [ok |-> TRUE, name |-> parts[i]]

\* the name 'e-acute, euro, a' (six bytes of UTF-8) has been encoded
C30_Witness ==
    /\ vlast.op = "encodeName"
    /\ vlast.path = <<233, 8364, 97>>
    /\ Len(vlast.cb[1]) = 30
    /\ decodeName(vlast.cb[1]).name = <<233, 8364, 97>>

\* C29: readdir on a directory of the encrypted store returns one name per entry
\* of the backing directory, in the order of the host's listing: the name the
\* store encoded for an entry it wrote, the literal '???' for an entry whose
\* name does not decode; the listing is neither aborted nor shortened.
C29_ReaddirKeepsEveryEntry ==
    vlast.op = "cryptReaddir"
    => LET listing == vlast.path
           out == vlast.cb[1]
       IN  /\ vlast.err = NoErr
           /\ Len(out) = Len(listing)
           /\ \A i \in 1..Len(listing) :
                  /\ \A n \in ListedNames : listing[i] = EncodedNames[n] => out[i] = n
                  /\ listing[i] \in Foreign => out[i] = Unreadable

\* a listing of a foreign entry followed by the entry of 'a'
C29_Witness ==
    /\ vlast.op = "cryptReaddir"
    /\ vlast.path = <<"lost+found", EncodedNames[<<97>>]>>
    /\ vlast.cb = <<(<<Unreadable, <<97>>>>)>>

\* what the host can observe of the file: its logical size and content
logicalView(f, B) == [size |-> headerSize(f), data |-> cryptRead(f, B, headerSize(f), 0).out]

\* the file after the calls of tasks a and then b, each run to its end alone;
\* fresh is the nonce drawn if the file has no header yet
serialWrites(f, B, a, b, fresh) ==
    LET fa == cryptWrite(f, B, a.buffer, a.offset, fresh).file
    IN  cryptWrite(fa, B, b.buffer, b.offset, fresh).file

\* two calls on the open descriptor have both returned
BothWritten ==
    /\ DOMAIN tasks = TaskIds
    /\ \A p \in TaskIds : tasks[p].pc = "done" /\ tasks[p].err = ""

\* a single call run alone leaves the file the atomic write leaves
AloneIsAtomic ==
    (\E p \in TaskIds : DOMAIN tasks = {p} /\ tasks[p].pc = "done" /\ tasks[p].err = "")
        => \E p \in DOMAIN tasks : \E fresh \in Nonces :
              disk = cryptWrite(prevDisk, blockSize, tasks[p].buffer,
                                tasks[p].offset, fresh).file

\* C25: operations on one descriptor are atomic: when two writes on the same
\* descriptor were in flight together and both have returned, the size and the
\* content of the file are those of running the two one after the other in one of
\* the two orders
C25_SameFdSerialised ==
    BothWritten =>
        \E a \in TaskIds : \E b \in TaskIds \ {a} : \E fresh \in Nonces :
            logicalView(disk, blockSize)
                = logicalView(serialWrites(prevDisk, blockSize, tasks[a], tasks[b], fresh),
                              blockSize)

\* the size the header holds before a write touches it: 0 for a header the write
\* has to create
sizeBeforeWrite(f) == IF Len(f) < META_SIZE THEN 0 ELSE headerSize(f)

\* one write is in flight and no other call was started
OnlyWrite(p) == DOMAIN tasks = {p} /\ tasks[p].err = ""

\* C31: within a single write on the encrypted store every block is written to the
\* body before the size field is rewritten, and the size is the last write: until
\* the call has passed its last await the header holds the pre-write size (0 for a
\* header the call created), at that await the body is already the final one, and
\* the write of the size alone completes the file
C31_SizeWrittenLast ==
    \A p \in TaskIds :
        OnlyWrite(p) =>
            LET t == tasks[p]
                newFileSize == Max(sizeBeforeWrite(prevDisk), t.offset + Len(t.buffer))
            IN  /\ t.pc \in {"stat", "header"} => disk = prevDisk
                /\ t.pc \in {"read", "write", "size"} =>
                       headerSize(disk) = sizeBeforeWrite(prevDisk)
                /\ t.pc = "size" =>
                       FileWrite(disk, writeBigInt64BE(newFileSize), 0)
                           = cryptWrite(prevDisk, blockSize, t.buffer, t.offset,
                                        headerNonce(disk)).file
                /\ t.pc = "done" =>
                       /\ headerSize(disk) = newFileSize
                       /\ disk = cryptWrite(prevDisk, blockSize, t.buffer, t.offset,
                                            headerNonce(disk)).file

\* a write across two blocks of a file with content has written both blocks past the
\* old size and stands before the write of the size
C31_Witness ==
    \E p \in TaskIds :
        /\ OnlyWrite(p)
        /\ tasks[p].pc = "size"
        /\ tasks[p].bytesWritten = Len(tasks[p].buffer)
        /\ tasks[p].block > FloorDiv(tasks[p].offset, blockSize)
        /\ disk # prevDisk
        /\ headerSize(disk) = sizeBeforeWrite(prevDisk)

\* C32: for every 16-byte nonce and every block counter the derivation returns an
\* IV: its high eight bytes are those of the nonce, its low eight bytes are the
\* big-endian sum of the nonce's low eight bytes and the counter modulo 2^64, also
\* when that sum reaches 2^64
C32_CounterIVWraps ==
    vlast.op = "deriveCounterIV" =>
        /\ vlast.err = NoErr
        /\ Len(vlast.cb) = 1
        /\ SubSeq(vlast.cb[1], 1, 8) = SubSeq(vlast.path, 1, 8)
        /\ SubSeq(vlast.cb[1], 9, 16) = AddBE(SubSeq(vlast.path, 9, 16), vlast.fd).bytes

\* C33: every dispatcher operation hands its host callback to the scheduler for a
\* later tick, on the success and on the failure path; none calls it from inside
\* its own handler
C33_CallbackDeferred ==
    \A i \in 1..Len(delivered) : delivered[i].via = "nextTick"

\* C37: every invocation of a dispatcher operation invokes the host callback
\* exactly once, whether the operation succeeds, the backend throws or no backend
\* matches the path
C37_ExactlyOneCallback ==
    vlast.op \in HostOps \cup {"rename"} => Len(delivered) = 1

\* each of the three outcomes has been answered: success, a backend that threw its
\* own fuse error in a handler with two callback calls in its catch block, and a
\* path no backend matches
C37_Witness ==
    /\ vlast.op \in {"statfs", "access", "rmdir"}
    /\ vlast.err.cls = "ErrnoFuseCb"
    /\ Len(delivered) = 1
    /\ delivered[1].args = <<vlast.err.fuseErr>>

\* C34: a path is routed to the backend registered under a prefix other than '/'
\* only if it is that prefix or continues it with a '/'
C34_PrefixAtComponentBoundary ==
    (vlast.op = "resolve" /\ vlast.err = NoErr /\ vlast.cb[2] # "/") =>
        \/ vlast.path = vlast.cb[2]
        \/ StartsWith(vlast.path, vlast.cb[2] \o "/")

\* C35: when two writes to the same backing file were in flight together and both
\* have completed, the size in the header is the largest of the size before either
\* started and the ends of the two writes
C35_NoLostSizeUpdate ==
    BothWritten =>
        headerSize(disk)
            = Max(sizeBeforeWrite(prevDisk),
                  Max(tasks[1].offset + Len(tasks[1].buffer),
                      tasks[2].offset + Len(tasks[2].buffer)))

\* C36: after setattr with a size n on an encrypted file that has a header, the
\* backing file still has its header with the nonce it had, getattr reports size n,
\* and the bytes below min(n, old size) read as before
C36_SetattrKeepsFormat ==
    (/\ last.op = "setattr" /\ last.len = 1 /\ last.err = ""
     /\ Len(prevDisk) >= META_SIZE)
        => LET n == last.size
               kept == Min(n, headerSize(prevDisk))
           IN  /\ Len(disk) >= META_SIZE
               /\ headerNonce(disk) = headerNonce(prevDisk)
               /\ storeGetattr(disk).ret = n
               /\ cryptRead(disk, blockSize, kept, 0)
                      = cryptRead(prevDisk, blockSize, kept, 0)

\* C38: a pass-through store and an encrypted store, both starting from an empty
\* base directory and fed the same create, open, write, read, ftruncate (size >= 0)
\* and release operations, return the same bytes for every read and report the
\* same file size
C38_StoresEquivalent ==
    /\ Exists(disk) <=> Exists(disk2)
    /\ Exists(disk) => storeGetattr(disk).ret = directGetattrSize(disk2)
    /\ (last.op = "read" /\ last.err = "") => last.ret[1] = last.ret[2]

\* C39: in the CLI mount command the backend is in the registry before the mount
\* accepts host operations, the filesystem is not mounted if the backend's init
\* failed, and no host operation is dispatched against an empty registry
C39_MountAfterRegistration ==
    /\ Mounted => registry # <<>>
    /\ (Started /\ tasks["register"].pc = "rejected") => tasks["mount"].pc # "mounted"
    /\ vlast.op \in HostOps => vlast.inst # "none"

====
